---- MODULE Spec2Model ----
(***************************************************************************)
(* Plan-tree compiler for real-valued transforms (rocFFT).                 *)
(*                                                                         *)
(* Spec     : a real-transform root node is built (BuildTree_internal of   *)
(*            its scheme) and then has its layout propagated               *)
(*            (AssignParams_internal).                                     *)
(* SpecLeaf : the checks a leaf kernel node undergoes (KernelCheck,        *)
(*            SanityCheck, SetupGridParamAndFuncPtr).                      *)
(* SpecFn   : the helper functions of the builders, called on their own.   *)
(* SpecRepo : nodes of concurrently compiled plans acquire their twiddle   *)
(*            and chirp tables (CreateDeviceResources) and release them    *)
(*            when destroyed (~TreeNode).                                  *)
(*                                                                         *)
(* Sequences are 1-based here; length[0] of the source is length[1].       *)
(***************************************************************************)
EXTENDS Integers, Sequences, FiniteSets, TLC

VARIABLES
    pc,     \* position of the plan compilation: "request", "built", "assigned", "abort", "throw"
    req,    \* the root node as requested, before it is built
    root,   \* the root TreeNode with its subtree
    pool,   \* function_pool: what the kernel catalog answers
    oracle, \* answers of the collaborators that are not part of this code
    leaf,   \* the leaf node of SpecLeaf
    keys,   \* kernel_keys handed to LeafNode::SanityCheck
    gp,     \* GridParam filled by SetupGridParamAndFuncPtr
    lpc,    \* position of the leaf checks
    call,   \* SpecFn: the helper function called and its arguments
    ret,    \* SpecFn: what the call returned
    planNodes, \* SpecRepo: the nodes of the plans being compiled, with their leases
    repo,   \* SpecRepo: the twiddle / chirp cache (Repo)
    log     \* SpecRepo: per node, the Repo calls it has made

vars == <<pc, req, root, pool, oracle, leaf, keys, gp, lpc, call, ret, planNodes, repo, log>>

-----------------------------------------------------------------------------
(* Bounds of the model *)

\* strides are padded by 0..MaxPad elements per row, distances by 0..MaxPad rows
MaxPad == 1

-----------------------------------------------------------------------------
(* Sequence helpers: std::swap on two entries, products *)

Swap(s, i, j) == [k \in DOMAIN s |-> IF k = i THEN s[j] ELSE IF k = j THEN s[i] ELSE s[k]]

RECURSIVE Prod(_)
Prod(s) == IF s = <<>> THEN 1 ELSE Head(s) * Prod(Tail(s))

\* "for(i = 1; i < stride.size(); ++i) stride[i] /= 2"
HalveTail(s) == [k \in DOMAIN s |-> IF k = 1 THEN s[k] ELSE s[k] \div 2]

-----------------------------------------------------------------------------
(* TreeNode *)

\* a freshly constructed node: vectors empty, distances 0, no embedded type
Node(scheme) ==
    [scheme          |-> scheme,
     dimension       |-> 1,
     direction       |-> -1,
     precision       |-> "single",
     batch           |-> 1,
     inArrayType     |-> "unset",
     placement       |-> "inplace",
     arch            |-> "none",
     length          |-> <<>>,
     outputLength    |-> <<>>,
     inStride        |-> <<>>,
     outStride       |-> <<>>,
     iDist           |-> 0,
     oDist           |-> 0,
     ebtype          |-> "NONE",
     isLeaf          |-> TRUE,
     allowOutofplace |-> TRUE,
     try_fuse_pre_post_processing |-> FALSE,
     solution        |-> "NONE",
     childNodes      |-> <<>>,
     buildOrder      |-> <<>>,
     fuseShims       |-> <<>>]

noNode == Node("none")

\* children created one after the other and appended as they are created:
\* the k-th child created is the k-th child of the node
InOrder(n) == [i \in 1..n |-> i]

\* NodeFactory::CreateNodeFromScheme(scheme, parent) / NodeMetaData(parent):
\* the child inherits precision, batch, direction and the device of its parent
CreateNodeFromScheme(scheme, parent) ==
    [Node(scheme) EXCEPT !.direction = parent.direction,
                         !.precision = parent.precision,
                         !.batch     = parent.batch,
                         !.arch      = parent.arch]

\* the complex FFT sub-plan made by NodeFactory::CreateExplicitNode and expanded
\* by RecursiveBuildTree: a single Stockham kernel when the catalog has one for
\* the length, a composite (non-leaf) plan otherwise
CreateExplicitNode(parent, dimension, length, single) ==
    [CreateNodeFromScheme(IF single THEN "CS_KERNEL_STOCKHAM" ELSE "CS_L1D_CC", parent)
        EXCEPT !.dimension = dimension, !.length = length, !.isLeaf = single]

\* TreeNode::GetOutputLength
GetOutputLength(n) == IF n.outputLength = <<>> THEN n.length ELSE n.outputLength

-----------------------------------------------------------------------------
(* Real and complex lengths of a real-complex plan *)

\* variant of set_complex_length that drops the "+ 1" (C3 depends on it)
set_complex_length_noplus(node) ==
    LET ol == [node.length EXCEPT ![1] = node.length[1] \div 2]
    IN  IF node.direction = -1
        THEN [node EXCEPT !.outputLength = ol]
        ELSE [node EXCEPT !.length = ol, !.outputLength = node.length]

\* variant that never exchanges length and outputLength (C13 depends on the exchange)
set_complex_length_noswap(node) ==
    [node EXCEPT !.outputLength = [node.length EXCEPT ![1] = (node.length[1] \div 2) + 1]]

\* set_complex_length: outputLength = length with front()/2 + 1; for a node that
\* is not forward the two are swapped (length becomes the complex one)
set_complex_length(node) ==
    LET ol == [node.length EXCEPT ![1] = (node.length[1] \div 2) + 1]
    IN  IF node.direction = -1
        THEN [node EXCEPT !.outputLength = ol]
        ELSE [node EXCEPT !.length = ol, !.outputLength = node.length]

\* the realLength / complexLength pointers set_complex_length hands back
realLengthOf(n)    == IF n.direction = -1 THEN n.length ELSE n.outputLength
complexLengthOf(n) == IF n.direction = -1 THEN n.outputLength ELSE n.length

-----------------------------------------------------------------------------
(* CS_REAL_TRANSFORM_USING_CMPLX *)

\* RealTransCmplxNode::BuildTree_internal; single: the complex transform is one kernel
BuildTree_RealTransCmplx(node0, single) ==
    LET node == set_complex_length(node0)
        r2c  == node.inArrayType = "real"
        realLength    == realLengthOf(node)
        complexLength == complexLengthOf(node)
        head0 == CreateNodeFromScheme(
                     IF r2c THEN "CS_KERNEL_COPY_R_TO_CMPLX" ELSE "CS_KERNEL_COPY_HERM_TO_CMPLX",
                     node)
        copyHeadPlan ==
            [head0 EXCEPT !.dimension = node.dimension,
                          !.length = node.length,
                          !.outputLength = IF r2c THEN <<>> ELSE realLength]
        fftPlan == CreateExplicitNode(node, node.dimension, realLength, single)
        tail0 == CreateNodeFromScheme(
                     IF r2c THEN "CS_KERNEL_COPY_CMPLX_TO_HERM" ELSE "CS_KERNEL_COPY_CMPLX_TO_R",
                     node)
        copyTailPlan ==
            [tail0 EXCEPT !.dimension = node.dimension,
                          !.length = realLength,
                          !.outputLength = IF r2c THEN complexLength ELSE <<>>]
    IN  [node EXCEPT !.isLeaf = FALSE,
                     !.childNodes = <<copyHeadPlan, fftPlan, copyTailPlan>>, !.buildOrder = InOrder(3)]

\* the loop "outStride.push_back(oDist); oDist *= length[index]" of
\* RealTransCmplxNode::AssignParams_internal, from index (1-based) on
RECURSIVE ContiguousFrom(_, _, _, _)
ContiguousFrom(stride, dist, length, index) ==
    IF index > Len(length)
    THEN [stride |-> stride, dist |-> dist]
    ELSE ContiguousFrom(Append(stride, dist), dist * length[index], length, index + 1)

\* variant that always starts from the head copy's input row (C20 depends on it)
HeadRowLength_input(head) == head.length[1]

\* the first value of copyHeadPlan->oDist: the head copy's output row, its
\* input row if it has no outputLength
HeadRowLength(head) ==
    IF head.outputLength = <<>> THEN head.length[1] ELSE head.outputLength[1]

\* RealTransCmplxNode::AssignParams_internal. outStride.push_back appends to
\* whatever the head copy's outStride already holds.
AssignParams_RealTransCmplx(node) ==
    LET head == node.childNodes[1]
        fft  == node.childNodes[2]
        tail == node.childNodes[3]
        first == HeadRowLength(head)
        lay  == ContiguousFrom(Append(head.outStride, 1), first, node.length, 2)
        copyHeadPlan == [head EXCEPT !.inStride = node.inStride, !.iDist = node.iDist,
                                     !.outStride = lay.stride, !.oDist = lay.dist]
        fftPlan == [fft EXCEPT !.inStride = copyHeadPlan.outStride,
                               !.iDist = copyHeadPlan.oDist,
                               !.outStride = copyHeadPlan.outStride,
                               !.oDist = copyHeadPlan.oDist]
        copyTailPlan == [tail EXCEPT !.inStride = fftPlan.outStride, !.iDist = fftPlan.oDist,
                                     !.outStride = node.outStride, !.oDist = node.oDist]
    IN  [node EXCEPT !.childNodes = <<copyHeadPlan, fftPlan, copyTailPlan>>]

-----------------------------------------------------------------------------
(* CS_REAL_TRANSFORM_EVEN *)

\* variant that emits the separate pre/post node even when it is fused (C9 depends on it)
NeedSeparatePrePost_always(fuse) == TRUE

\* "if(!try_fuse_pre_post_processing)": a separate pre/post node is emitted
NeedSeparatePrePost(fuse) == ~fuse

\* variant that puts the callback node of an inverse plan first (C10 depends on it)
InverseChildren_callback_first(pre, fft, cb) == <<cb>> \o pre \o <<fft>>

\* variant that creates the children of a forward even-length node in the
\* order in which they run (C18 depends on it)
ForwardBuildOrder_in_order(post) == InOrder(2 + Len(post))

\* positions of the children in order of creation: cfftPlan is created and
\* RecursiveBuildTree'd before the switch on direction, the other children
\* inside it
ForwardBuildOrder(post) == <<2, 1>> \o [i \in 1..Len(post) |-> 2 + i]
InverseBuildOrder(pre)  == IF pre = <<>> THEN <<1, 2>> ELSE <<2, 1, 3>>

\* the emplace_back order of the forward and of the inverse case
ForwardChildren(cb, fft, post) == <<cb, fft>> \o post
InverseChildren(pre, fft, cb)  == pre \o <<fft, cb>>

\* variant that leaves the complex FFT at the full real length (C2 depends on it)
cfftLength_full(realLength) == realLength

\* "cfftPlanData.length = *realLength; cfftPlanData.length[0] = cfftPlanData.length[0] / 2"
cfftLength(realLength) == [realLength EXCEPT ![1] = realLength[1] \div 2]

\* RealTransEvenNode::BuildTree_internal; single: the complex FFT child is a
\* single kernel (cfftPlan->isLeafNode()). An invalid direction only prints
\* "invalid direction: plan creation failed!" and returns with no children.
BuildTree_RealTransEven(node0, single) ==
    LET node == set_complex_length(node0)
        realLength    == realLengthOf(node)
        complexLength == complexLengthOf(node)
        cfft0 == CreateExplicitNode(node, node.dimension, cfftLength(realLength), single)
        cfft1 == [cfft0 EXCEPT !.allowOutofplace = FALSE]
        fuse  == IF node.try_fuse_pre_post_processing THEN cfft1.isLeaf ELSE FALSE
        built == [node EXCEPT !.try_fuse_pre_post_processing = fuse, !.isLeaf = FALSE]
        callback(len) ==
            [CreateNodeFromScheme("CS_KERNEL_APPLY_CALLBACK", node)
                EXCEPT !.dimension = node.dimension, !.length = len]
    IN  CASE node.direction = -1 ->
               LET cfftPlan ==
                       IF fuse
                       THEN [cfft1 EXCEPT !.ebtype = "Real2C_POST",
                                          !.allowOutofplace = TRUE,
                                          !.outputLength =
                                              [cfft1.length EXCEPT ![1] = cfft1.length[1] + 1]]
                       ELSE cfft1
                   postPlan ==
                       [CreateNodeFromScheme("CS_KERNEL_R_TO_CMPLX", node)
                           EXCEPT !.dimension = 1,
                                  !.length = [realLength EXCEPT ![1] = realLength[1] \div 2],
                                  !.outputLength = complexLength]
                   post == IF NeedSeparatePrePost(fuse) THEN <<postPlan>> ELSE <<>>
               IN  [built EXCEPT !.childNodes =
                                     ForwardChildren(callback(realLength), cfftPlan, post),
                                 !.buildOrder = ForwardBuildOrder(post)]
          [] node.direction = 1 ->
               LET prePlan ==
                       [CreateNodeFromScheme("CS_KERNEL_CMPLX_TO_R", node)
                           EXCEPT !.dimension = 1,
                                  !.length = complexLength,
                                  !.outputLength =
                                      [node.outputLength EXCEPT ![1] = node.outputLength[1] \div 2]]
                   cfftPlan ==
                       IF ~fuse THEN cfft1
                       ELSE [cfft1 EXCEPT !.ebtype = "C2Real_PRE", !.allowOutofplace = TRUE]
                   pre == IF NeedSeparatePrePost(fuse) THEN <<prePlan>> ELSE <<>>
               IN  [built EXCEPT !.childNodes =
                                     InverseChildren(pre, cfftPlan, callback(node.outputLength)),
                                 !.buildOrder = InverseBuildOrder(pre)]
          [] OTHER -> built

\* variant that stops at the node itself (C23 depends on the walk)
RootPlan_self(chain) == chain[1]

\* "rootPlan = this; while(rootPlan->parent != nullptr) rootPlan = rootPlan->parent":
\* chain is the node followed by its parent, its parent's parent, ...; the last
\* one has a null parent
RECURSIVE RootPlan(_)
RootPlan(chain) == IF Len(chain) = 1 THEN chain[1] ELSE RootPlan(Tail(chain))

\* RealTransEvenNode::AssignParams_internal on a node with 2 or 3 children;
\* rootPlan is the node reached by following parent up to the root
AssignParams_RealTransEven(node, rootPlan) ==
    LET n == Len(node.childNodes)
    IN  IF node.direction = -1
        THEN LET applyCallback ==
                     [node.childNodes[1] EXCEPT !.inStride = node.inStride, !.iDist = node.iDist,
                                                !.outStride = node.inStride, !.oDist = node.iDist]
                 fft1 == [node.childNodes[2] EXCEPT !.inStride = HalveTail(node.inStride),
                                                    !.iDist = node.iDist \div 2,
                                                    !.outStride = HalveTail(node.inStride),
                                                    !.oDist = node.iDist \div 2]
             IN  IF n = 3
                 THEN LET postPlan ==
                              [node.childNodes[3] EXCEPT !.inStride = HalveTail(node.inStride),
                                                         !.iDist = node.iDist \div 2,
                                                         !.outStride = node.outStride,
                                                         !.oDist = node.oDist]
                      IN  [node EXCEPT !.childNodes = <<applyCallback, fft1, postPlan>>]
                 ELSE [node EXCEPT !.childNodes =
                          <<applyCallback,
                            [fft1 EXCEPT !.outStride = node.outStride, !.oDist = node.oDist]>>]
        ELSE LET fusedPreProcessing == node.childNodes[1].ebtype = "C2Real_PRE"
                 prePlan ==
                     [node.childNodes[1] EXCEPT !.iDist = node.iDist,
                                                !.oDist = node.oDist \div 2,
                                                !.inStride = node.inStride,
                                                !.outStride = HalveTail(node.outStride)]
                 fft0 == IF fusedPreProcessing THEN node.childNodes[1] ELSE node.childNodes[2]
                 fftPlan ==
                     [fft0 EXCEPT !.inStride = IF fusedPreProcessing THEN node.inStride
                                               ELSE HalveTail(node.outStride),
                                  !.iDist = IF fusedPreProcessing THEN node.iDist
                                            ELSE node.oDist \div 2,
                                  !.outStride = HalveTail(node.outStride),
                                  !.oDist = node.oDist \div 2]
                 applyCallback ==
                     [node.childNodes[n] EXCEPT !.inStride = rootPlan.outStride,
                                                !.iDist = rootPlan.oDist,
                                                !.outStride = rootPlan.outStride,
                                                !.oDist = rootPlan.oDist]
             IN  [node EXCEPT !.childNodes =
                      (IF fusedPreProcessing THEN <<>> ELSE <<prePlan>>)
                      \o <<fftPlan, applyCallback>>]

-----------------------------------------------------------------------------
(* function_pool and device queries *)

\* function_pool::has_function(fpkey(len, precision, CS_KERNEL_STOCKHAM_BLOCK_CC)),
\* function_pool::has_SBCC_kernel
has_SBCC_kernel(p, len) == len \in p.sbcc
\* function_pool::has_function(fpkey(len, precision))
has_function(p, len)    == len \in p.normal
\* function_pool::has_SBCR_kernel
has_SBCR_kernel(p, len) == len \in p.sbcr

\* is_device_gcn_arch(deviceProp, name)
is_device_gcn_arch(arch, name) == arch = name

\* variant of SBCC_dim_available without the minimum-rows test
SBCC_dim_available_norows(p, length, sbcc_dim, precision) ==
    LET have_sbcc == has_SBCC_kernel(p, length[sbcc_dim])
    IN  IF ~have_sbcc /\ ~has_function(p, length[sbcc_dim]) THEN FALSE
        ELSE IF length[1] < p.tpb /\ ~have_sbcc THEN FALSE
        ELSE TRUE

\* SBCC_dim_available(length, sbcc_dim, precision); sbcc_dim is 1-based
SBCC_dim_available(p, length, sbcc_dim, precision) ==
    LET have_sbcc == has_SBCC_kernel(p, length[sbcc_dim])
        numTrans  == p.tpb
        minRows   == IF precision = "single" THEN 8 ELSE 4
    IN  IF ~have_sbcc /\ ~has_function(p, length[sbcc_dim]) THEN FALSE
        ELSE IF length[1] < numTrans /\ ~have_sbcc THEN FALSE
        ELSE IF ~have_sbcc /\ numTrans < minRows THEN FALSE
        ELSE TRUE

\* SBCR_dim_available(length, sbcr_dim, precision)
SBCR_dim_available(p, length, sbcr_dim, precision) == has_SBCR_kernel(p, length[sbcr_dim])

\* variant in which both 3-D transposes turn the same way (C19 depends on it)
TransposeOutputLength_same_cycle(scheme, length) ==
    CASE scheme = "CS_KERNEL_TRANSPOSE" -> Swap(length, 1, 2)
      [] scheme \in {"CS_KERNEL_TRANSPOSE_XY_Z", "CS_KERNEL_STOCKHAM_TRANSPOSE_XY_Z",
                     "CS_KERNEL_TRANSPOSE_Z_XY", "CS_KERNEL_STOCKHAM_TRANSPOSE_Z_XY"} ->
             Swap(Swap(length, 2, 3), 1, 2)
      [] OTHER -> <<>>

\* TreeNode::SetTransposeOutputLength: the outputLength it sets, <<>> standing
\* for the exception thrown on a node that is no transpose
TransposeOutputLength(scheme, length) ==
    CASE scheme = "CS_KERNEL_TRANSPOSE" -> Swap(length, 1, 2)
      [] scheme \in {"CS_KERNEL_TRANSPOSE_XY_Z", "CS_KERNEL_STOCKHAM_TRANSPOSE_XY_Z"} ->
             Swap(Swap(length, 2, 3), 1, 2)
      [] scheme \in {"CS_KERNEL_TRANSPOSE_Z_XY", "CS_KERNEL_STOCKHAM_TRANSPOSE_Z_XY"} ->
             Swap(Swap(length, 1, 2), 2, 3)
      [] OTHER -> <<>>

\* a transpose child: CreateNodeFromScheme, length, SetTransposeOutputLength
TransposeNode(scheme, parent, length) ==
    [CreateNodeFromScheme(scheme, parent)
        EXCEPT !.length = length, !.outputLength = TransposeOutputLength(scheme, length)]

\* NodeFactory::CreateFuseShim(type, nodes) followed by IsSchemeFusable(): the
\* shim is kept when the catalog has the fused kernel. nodes are positions in
\* the parent's childNodes.
FuseShim(type, nodes) == [type |-> type, nodes |-> nodes]
IsSchemeFusable(fusable, type, nodes) == FuseShim(type, nodes) \in fusable
\* variant that records the nodes of an accepted shim in reverse (C15 depends
\* on the order in which the builders list them)
ShimIf_reversed(fusable, type, nodes) ==
    IF IsSchemeFusable(fusable, type, nodes)
    THEN <<FuseShim(type, [i \in DOMAIN nodes |-> nodes[Len(nodes) + 1 - i]])>>
    ELSE <<>>

ShimIf(fusable, type, nodes) ==
    IF IsSchemeFusable(fusable, type, nodes) THEN <<FuseShim(type, nodes)>> ELSE <<>>

\* the even-length child of a 2-D / 3-D node
RealEvenChild(parent, length, fuse, single) ==
    BuildTree_RealTransEven(
        [CreateNodeFromScheme("CS_REAL_TRANSFORM_EVEN", parent)
            EXCEPT !.try_fuse_pre_post_processing = fuse,
                   !.length = length, !.dimension = 1],
        single)

-----------------------------------------------------------------------------
(* CS_REAL_2D_EVEN *)

\* "for length > 2048, don't try pre/post because LDS usage is too high"
FuseLengthLimit == 2048

\* the value given to try_fuse_pre_post_processing by the in-place SBCC
\* builders: "length[0] <= 2048" on the node's length after set_complex_length
TryFuseByLength(length) == length[1] <= FuseLengthLimit

\* a column kernel along a higher dimension
ColumnScheme(useBlock) == IF useBlock THEN "CS_KERNEL_STOCKHAM_BLOCK_CC" ELSE "CS_KERNEL_STOCKHAM"

\* Real2DEvenNode::BuildTree_internal_SBCC
BuildTree_Real2D_SBCC(node, p, o) ==
    LET sbccScheme == ColumnScheme(has_SBCC_kernel(p, node.length[2]))
    IN  IF node.inArrayType = "real"
        THEN LET rcplan == RealEvenChild(node, node.length, TryFuseByLength(node.length), o.single)
                 sbccY  == [CreateNodeFromScheme(sbccScheme, node)
                               EXCEPT !.length = Swap(rcplan.outputLength, 1, 2),
                                      !.outputLength = rcplan.outputLength]
             IN  [node EXCEPT !.childNodes = <<rcplan, sbccY>>, !.buildOrder = InOrder(2)]
        ELSE LET sbccY  == [CreateNodeFromScheme(sbccScheme, node)
                               EXCEPT !.outputLength = node.length,
                                      !.length = Swap(node.length, 1, 2)]
                 crplan == RealEvenChild(node, node.outputLength,
                                         TryFuseByLength(node.length), o.single)
             IN  [node EXCEPT !.childNodes = <<sbccY, crplan>>, !.buildOrder = InOrder(2)]

\* Real2DEvenNode::BuildTree_internal_TR_pair
BuildTree_Real2D_TR_pair(node, p, o) ==
    IF node.inArrayType = "real"
    THEN LET row1Plan   == RealEvenChild(node, node.length, o.fuseDefault, o.single)
             trans1Plan == TransposeNode("CS_KERNEL_TRANSPOSE", node, row1Plan.outputLength)
             row2Plan   == CreateExplicitNode(node, 1, trans1Plan.outputLength,
                                              has_function(p, trans1Plan.outputLength[1]))
             trans2Plan == TransposeNode("CS_KERNEL_TRANSPOSE", node, trans1Plan.outputLength)
             shims ==
                 (IF IsSchemeFusable(o.fusable, "FT_STOCKHAM_R2C_TRANSPOSE", <<1, 2>>)
                  THEN <<FuseShim("FT_STOCKHAM_R2C_TRANSPOSE", <<1, 2>>)>>
                  ELSE ShimIf(o.fusable, "FT_R2C_TRANSPOSE", <<1, 2, 3>>))
                 \o ShimIf(o.fusable, "FT_STOCKHAM_WITH_TRANS", <<3, 4>>)
         IN  [node EXCEPT !.fuseShims = shims,
                          !.childNodes = <<row1Plan, trans1Plan, row2Plan, trans2Plan>>, !.buildOrder = InOrder(4)]
    ELSE LET t1 == TransposeNode("CS_KERNEL_TRANSPOSE", node, node.length)
             trans1Plan == [t1 EXCEPT !.dimension = 2]
             c2cPlan    == CreateExplicitNode(node, 1, trans1Plan.outputLength,
                                              has_function(p, trans1Plan.outputLength[1]))
             t2 == TransposeNode("CS_KERNEL_TRANSPOSE", node, trans1Plan.outputLength)
             trans2plan == [t2 EXCEPT !.dimension = 2]
             c2r0 == [CreateNodeFromScheme("CS_REAL_TRANSFORM_EVEN", node)
                         EXCEPT !.try_fuse_pre_post_processing = o.fuseDefault,
                                !.length = node.outputLength]
             c2rPlan == BuildTree_RealTransEven(c2r0, o.single)
             shims == ShimIf(o.fusable, "FT_TRANS_WITH_STOCKHAM", <<1, 2>>)
                      \o ShimIf(o.fusable, "FT_TRANSPOSE_C2R", <<3, 4>>)
         IN  [node EXCEPT !.fuseShims = shims,
                          !.childNodes = <<trans1Plan, c2cPlan, trans2plan, c2rPlan>>, !.buildOrder = InOrder(4)]

\* variant of the 2-D selection that always falls back to the transpose pair
Solution2D_never_sbcc(p, node) == "TR_PAIR"

\* "solution = SBCC_dim_available(length, 1, precision) ? INPLACE_SBCC : TR_PAIR"
Solution2D(p, node) ==
    IF SBCC_dim_available(p, node.length, 2, node.precision) THEN "INPLACE_SBCC" ELSE "TR_PAIR"

\* Real2DEvenNode::BuildTree_internal
BuildTree_Real2DEven(node0, p, o) ==
    LET n1   == set_complex_length(node0)
        node == [n1 EXCEPT !.solution = Solution2D(p, n1), !.isLeaf = FALSE]
    IN  IF node.solution = "INPLACE_SBCC"
        THEN BuildTree_Real2D_SBCC(node, p, o)
        ELSE BuildTree_Real2D_TR_pair(node, p, o)

\* Real2DEvenNode::AssignParams_internal_SBCC
AssignParams_Real2D_SBCC(node) ==
    IF node.inArrayType = "real"
    THEN LET row0 == [node.childNodes[1] EXCEPT !.inStride = node.inStride,
                                                !.iDist = node.iDist,
                                                !.outStride = node.outStride,
                                                !.oDist = node.oDist]
             rowPlan == AssignParams_RealTransEven(row0, RootPlan(<<row0, node>>))
             sbccY == [node.childNodes[2] EXCEPT !.inStride = Swap(rowPlan.outStride, 1, 2),
                                                 !.iDist = rowPlan.oDist,
                                                 !.outStride = Swap(rowPlan.outStride, 1, 2),
                                                 !.oDist = rowPlan.oDist]
         IN  [node EXCEPT !.childNodes = <<rowPlan, sbccY>>]
    ELSE LET sbccY == [node.childNodes[1] EXCEPT !.inStride = Swap(node.inStride, 1, 2),
                                                 !.iDist = node.iDist,
                                                 !.outStride = Swap(node.inStride, 1, 2),
                                                 !.oDist = node.iDist]
             cr0 == [node.childNodes[Len(node.childNodes)]
                        EXCEPT !.inStride = node.inStride, !.iDist = node.iDist,
                               !.outStride = node.outStride, !.oDist = node.oDist,
                               !.dimension = 1]
             crplan == AssignParams_RealTransEven(cr0, RootPlan(<<cr0, node>>))
         IN  [node EXCEPT !.childNodes = <<sbccY, crplan>>]

\* Real2DEvenNode::AssignParams_internal_TR_pair. The transposes' outStride is
\* filled by push_back, appending to what it already holds.
AssignParams_Real2D_TR_pair(node) ==
    IF node.inArrayType = "real"
    THEN LET row0 == [node.childNodes[1] EXCEPT !.inStride = node.inStride,
                                                !.iDist = node.iDist,
                                                !.outStride = node.outStride,
                                                !.oDist = node.oDist]
             row1Plan == AssignParams_RealTransEven(row0, RootPlan(<<row0, node>>))
             t1 == node.childNodes[2]
             t1out == t1.outStride \o <<t1.length[2], 1>>
             trans1Plan == [t1 EXCEPT !.inStride = row1Plan.outStride,
                                      !.iDist = row1Plan.oDist,
                                      !.outStride = t1out,
                                      !.oDist = t1.length[1] * t1out[1]]
             row2Plan == [node.childNodes[3]
                             EXCEPT !.inStride = Swap(trans1Plan.outStride, 1, 2),
                                    !.iDist = trans1Plan.oDist,
                                    !.outStride = Swap(trans1Plan.outStride, 1, 2),
                                    !.oDist = trans1Plan.oDist]
             trans2Plan == [node.childNodes[4]
                               EXCEPT !.inStride = row2Plan.outStride,
                                      !.iDist = row2Plan.oDist,
                                      !.outStride = Swap(node.outStride, 1, 2),
                                      !.oDist = node.oDist]
         IN  [node EXCEPT !.childNodes = <<row1Plan, trans1Plan, row2Plan, trans2Plan>>]
    ELSE LET t1 == node.childNodes[1]
             t1out == t1.outStride \o <<t1.length[2], 1>>
             trans1Plan == [t1 EXCEPT !.inStride = node.inStride,
                                      !.iDist = node.iDist,
                                      !.outStride = t1out,
                                      !.oDist = t1.length[1] * t1out[1]]
             c2cPlan == [node.childNodes[2]
                            EXCEPT !.inStride = Swap(trans1Plan.outStride, 1, 2),
                                   !.iDist = trans1Plan.oDist,
                                   !.outStride = Swap(trans1Plan.outStride, 1, 2),
                                   !.oDist = trans1Plan.oDist]
             t2 == node.childNodes[3]
             t2out == Swap(trans1Plan.inStride, 1, 2)
             trans2Plan == [t2 EXCEPT !.inStride = Swap(trans1Plan.outStride, 1, 2),
                                      !.iDist = trans1Plan.oDist,
                                      !.outStride = t2out,
                                      !.oDist = t2.length[1] * t2out[1]]
             c2r0 == [node.childNodes[4]
                         EXCEPT !.inStride = Swap(trans2Plan.outStride, 1, 2),
                                !.iDist = trans2Plan.oDist,
                                !.outStride = node.outStride,
                                !.oDist = node.oDist]
             c2rPlan == AssignParams_RealTransEven(c2r0, RootPlan(<<c2r0, node>>))
         IN  [node EXCEPT !.childNodes = <<trans1Plan, c2cPlan, trans2Plan, c2rPlan>>]

\* Real2DEvenNode::AssignParams_internal
AssignParams_Real2DEven(node) ==
    IF node.solution = "INPLACE_SBCC"
    THEN AssignParams_Real2D_SBCC(node)
    ELSE AssignParams_Real2D_TR_pair(node)

-----------------------------------------------------------------------------
(* CS_REAL_3D_EVEN *)

\* the unit-stride test of Build_solution, on the node after set_complex_length
UnitStrides3D(node) ==
    LET realLength    == realLengthOf(node)
        complexLength == complexLengthOf(node)
    IN  /\ node.inStride[1] = 1
        /\ node.outStride[1] = 1
        /\ node.inStride[2] = complexLength[1]
        /\ node.outStride[2] = realLength[1]
        /\ node.inStride[3] = node.inStride[2] * complexLength[2]
        /\ node.outStride[3] = node.outStride[2] * realLength[2]

\* variant without the placement test (C22 depends on it)
SBCR_selected_any_placement(p, node) ==
    LET c2r_length == <<node.outputLength[1] \div 2, node.outputLength[2], node.outputLength[3]>>
    IN  /\ node.inArrayType # "real"
        /\ (is_device_gcn_arch(node.arch, "gfx908") \/ is_device_gcn_arch(node.arch, "gfx90a"))
        /\ SBCR_dim_available(p, c2r_length, 1, node.precision)
        /\ SBCR_dim_available(p, c2r_length, 2, node.precision)
        /\ SBCR_dim_available(p, c2r_length, 3, node.precision)
        /\ UnitStrides3D(node)

\* the condition under which Build_solution picks SBCR and returns
SBCR_selected(p, node) ==
    LET c2r_length == <<node.outputLength[1] \div 2, node.outputLength[2], node.outputLength[3]>>
    IN  /\ node.inArrayType # "real"
        /\ (is_device_gcn_arch(node.arch, "gfx908") \/ is_device_gcn_arch(node.arch, "gfx90a"))
        /\ SBCR_dim_available(p, c2r_length, 1, node.precision)
        /\ SBCR_dim_available(p, c2r_length, 2, node.precision)
        /\ SBCR_dim_available(p, c2r_length, 3, node.precision)
        /\ node.placement = "notinplace"
        /\ UnitStrides3D(node)

\* "bool sbcc_inplace = SBCC_dim_available(length, 1, ..) && SBCC_dim_available(length, 2, ..)"
sbcc_inplace(p, node) ==
    /\ SBCC_dim_available(p, node.length, 2, node.precision)
    /\ SBCC_dim_available(p, node.length, 3, node.precision)

\* variant of Build_solution that tests the in-place SBCC solution first
Build_solution_sbcc_first(p, node) ==
    IF sbcc_inplace(p, node) THEN "INPLACE_SBCC"
    ELSE IF SBCR_selected(p, node) THEN "SBCR"
    ELSE "TR_PAIRS"

\* Real3DEvenNode::Build_solution, on the node after set_complex_length
Build_solution(p, node) ==
    IF SBCR_selected(p, node) THEN "SBCR"
    ELSE IF sbcc_inplace(p, node) THEN "INPLACE_SBCC"
    ELSE "TR_PAIRS"

\* the lambda add_sbcc_children of Real3DEvenNode::BuildTree_internal_SBCC
add_sbcc_children(node, p, remainingLength) ==
    LET single == node.precision = "single"
        use_SBCC_192 ==
            \/ (remainingLength[3] = 192 /\ remainingLength[2] = 192 /\ single)
            \/ /\ is_device_gcn_arch(node.arch, "gfx908")
               /\ \/ (remainingLength[3] = 192 /\ remainingLength[2] = 200)
                  \/ (remainingLength[3] = 168 /\ remainingLength[2] = 192)
               /\ single
        schemeZ == IF remainingLength[3] = 192 THEN ColumnScheme(use_SBCC_192)
                   ELSE ColumnScheme(has_SBCC_kernel(p, remainingLength[3]))
        schemeY == IF remainingLength[2] = 192 THEN ColumnScheme(use_SBCC_192)
                   ELSE ColumnScheme(has_SBCC_kernel(p, remainingLength[2]))
        sbccZ == [CreateNodeFromScheme(schemeZ, node)
                     EXCEPT !.length = Swap(Swap(remainingLength, 2, 3), 1, 2),
                            !.outputLength = remainingLength]
        sbccY == [CreateNodeFromScheme(schemeY, node)
                     EXCEPT !.length = Swap(remainingLength, 1, 2),
                            !.outputLength = remainingLength]
    IN  <<sbccZ, sbccY>>

\* Real3DEvenNode::BuildTree_internal_SBCC
BuildTree_Real3D_SBCC(node, p, o) ==
    LET remainingLength == IF node.direction = -1 THEN node.outputLength ELSE node.length
    IN  IF node.inArrayType = "real"
        THEN LET rcplan == RealEvenChild(node, node.length, TryFuseByLength(node.length), o.single)
             IN  [node EXCEPT !.childNodes =
                      <<rcplan>> \o add_sbcc_children(node, p, remainingLength),
                              !.buildOrder = InOrder(3)]
        ELSE LET crplan == RealEvenChild(node, node.outputLength,
                                         TryFuseByLength(node.length), o.single)
             IN  [node EXCEPT !.childNodes =
                      add_sbcc_children(node, p, remainingLength) \o <<crplan>>,
                              !.buildOrder = InOrder(3),
                              !.fuseShims = ShimIf(o.fusable, "FT_TRANSPOSE_C2R", <<2, 3>>)]

\* Real3DEvenNode::BuildTree_internal_SBCR
BuildTree_Real3D_SBCR(node) ==
    LET ol == node.outputLength
        sbcr(len) == [CreateNodeFromScheme("CS_KERNEL_STOCKHAM_BLOCK_CR", node)
                         EXCEPT !.length = len, !.dimension = 1]
        sbcrZ == sbcr(<<ol[3], (ol[1] \div 2 + 1) * ol[2]>>)
        sbcrY == sbcr(<<ol[2], ol[3] * (ol[1] \div 2 + 1)>>)
        sbcrX == sbcr(<<ol[1] \div 2, ol[2] * ol[3]>>)
        applyCallback == [CreateNodeFromScheme("CS_KERNEL_APPLY_CALLBACK", node)
                             EXCEPT !.dimension = node.dimension, !.length = ol]
    IN  [node EXCEPT !.childNodes = <<sbcrZ, sbcrY, sbcrX, applyCallback>>, !.buildOrder = InOrder(4)]

\* a column FFT of the transpose-pair plans: CreateExplicitNode, in place
ColumnPlan(node, p, length) ==
    [CreateExplicitNode(node, 1, length, has_function(p, length[1]))
        EXCEPT !.allowOutofplace = FALSE]

\* a 3-D transpose child with dimension 2
Transpose3D(scheme, node, length) ==
    [TransposeNode(scheme, node, length) EXCEPT !.dimension = 2]

\* Real3DEvenNode::BuildTree_internal_TR_pairs
BuildTree_Real3D_TR_pairs(node, p, o) ==
    IF node.inArrayType = "real"
    THEN LET rcplan == RealEvenChild(node, node.length, o.fuseDefault, o.single)
             trans1 == Transpose3D("CS_KERNEL_TRANSPOSE_Z_XY", node, rcplan.outputLength)
             c1plan == ColumnPlan(node, p, trans1.outputLength)
             trans2 == Transpose3D("CS_KERNEL_TRANSPOSE_Z_XY", node, trans1.outputLength)
             c2plan == ColumnPlan(node, p, trans2.outputLength)
             trans3 == Transpose3D("CS_KERNEL_TRANSPOSE_Z_XY", node, trans2.outputLength)
             shims ==
                 (IF IsSchemeFusable(o.fusable, "FT_STOCKHAM_R2C_TRANSPOSE", <<1, 2>>)
                  THEN <<FuseShim("FT_STOCKHAM_R2C_TRANSPOSE", <<1, 2>>)>>
                  ELSE ShimIf(o.fusable, "FT_R2C_TRANSPOSE", <<1, 2, 3>>))
                 \o (IF IsSchemeFusable(o.fusable, "FT_STOCKHAM_WITH_TRANS_Z_XY", <<2, 3, 4>>)
                     THEN <<FuseShim("FT_STOCKHAM_WITH_TRANS_Z_XY", <<2, 3, 4>>)>>
                     ELSE ShimIf(o.fusable, "FT_STOCKHAM_WITH_TRANS", <<3, 4>>))
                 \o (IF IsSchemeFusable(o.fusable, "FT_STOCKHAM_WITH_TRANS_Z_XY", <<4, 5, 6>>)
                     THEN <<FuseShim("FT_STOCKHAM_WITH_TRANS_Z_XY", <<4, 5, 6>>)>>
                     ELSE ShimIf(o.fusable, "FT_STOCKHAM_WITH_TRANS", <<5, 6>>))
         IN  [node EXCEPT !.fuseShims = shims,
                          !.childNodes = <<rcplan, trans1, c1plan, trans2, c2plan, trans3>>, !.buildOrder = InOrder(6)]
    ELSE LET t3 == Transpose3D("CS_KERNEL_TRANSPOSE_XY_Z", node, node.length)
             trans3 == [t3 EXCEPT !.length = Swap(t3.length, 2, 3)]
             c2plan == ColumnPlan(node, p, trans3.outputLength)
             t2 == Transpose3D("CS_KERNEL_TRANSPOSE_XY_Z", node, trans3.outputLength)
             trans2 == [t2 EXCEPT !.length = Swap(t2.length, 2, 3)]
             c1plan == ColumnPlan(node, p, trans2.outputLength)
             t1 == Transpose3D("CS_KERNEL_TRANSPOSE_XY_Z", node, trans2.outputLength)
             trans1 == [t1 EXCEPT !.length = Swap(t1.length, 2, 3)]
             crplan == RealEvenChild(node, node.outputLength, o.fuseDefault, o.single)
             shims == ShimIf(o.fusable, "FT_STOCKHAM_WITH_TRANS_XY_Z", <<2, 3, 4>>)
                      \o ShimIf(o.fusable, "FT_TRANSPOSE_C2R", <<5, 6>>)
         IN  [node EXCEPT !.fuseShims = shims,
                          !.childNodes = <<trans3, c2plan, trans2, c1plan, trans1, crplan>>, !.buildOrder = InOrder(6)]

\* variant that merges the nodes of the first accepted shim while building, by
\* dropping the last of them (C14 depends on the builders leaving the children alone)
BuildTree_Real3DEven_fusing(node0, p, o) ==
    LET n1   == set_complex_length(node0)
        node == [n1 EXCEPT !.solution = Build_solution(p, n1), !.isLeaf = FALSE]
        t    == CASE node.solution = "INPLACE_SBCC" -> BuildTree_Real3D_SBCC(node, p, o)
                  [] node.solution = "SBCR"         -> BuildTree_Real3D_SBCR(node)
                  [] OTHER                          -> BuildTree_Real3D_TR_pairs(node, p, o)
        drop == IF t.fuseShims = <<>> THEN 0
                ELSE t.fuseShims[1].nodes[Len(t.fuseShims[1].nodes)]
    IN  [t EXCEPT !.childNodes = SelectSeq([i \in DOMAIN t.childNodes |->
                                               IF i = drop THEN noNode ELSE t.childNodes[i]],
                                           LAMBDA c : c # noNode)]

\* Real3DEvenNode::BuildTree_internal: Build_solution, then the builder of the solution
BuildTree_Real3DEven(node0, p, o) ==
    LET n1   == set_complex_length(node0)
        node == [n1 EXCEPT !.solution = Build_solution(p, n1), !.isLeaf = FALSE]
    IN  CASE node.solution = "INPLACE_SBCC" -> BuildTree_Real3D_SBCC(node, p, o)
          [] node.solution = "SBCR"         -> BuildTree_Real3D_SBCR(node)
          [] OTHER                          -> BuildTree_Real3D_TR_pairs(node, p, o)


\* a child given its four layout quantities
WithLayout(n, inStride, iDist, outStride, oDist) ==
    [n EXCEPT !.inStride = inStride, !.iDist = iDist, !.outStride = outStride, !.oDist = oDist]

\* Real3DEvenNode::AssignParams_internal_SBCC
AssignParams_Real3D_SBCC(node) ==
    LET ZStride(s) == Swap(Swap(s, 2, 3), 1, 2)
        YStride(s) == Swap(s, 1, 2)
    IN  IF node.inArrayType = "real"
        THEN LET rc0 == [WithLayout(node.childNodes[1], node.inStride, node.iDist,
                                    node.outStride, node.oDist) EXCEPT !.dimension = 1]
                 rcplan == AssignParams_RealTransEven(rc0, RootPlan(<<rc0, node>>))
                 sbccZ == WithLayout(node.childNodes[2], ZStride(node.outStride), node.oDist,
                                     ZStride(node.outStride), node.oDist)
                 sbccY == WithLayout(node.childNodes[3], YStride(node.outStride), node.oDist,
                                     YStride(node.outStride), node.oDist)
             IN  [node EXCEPT !.childNodes = <<rcplan, sbccZ, sbccY>>]
        ELSE LET sbccZ == WithLayout(node.childNodes[1], ZStride(node.inStride), node.iDist,
                                     ZStride(node.inStride), node.iDist)
                 sbccY == WithLayout(node.childNodes[2], YStride(node.inStride), node.iDist,
                                     YStride(node.inStride), node.iDist)
                 cr0 == [WithLayout(node.childNodes[Len(node.childNodes)],
                                    node.inStride, node.iDist, node.outStride, node.oDist)
                            EXCEPT !.dimension = 1]
                 crplan == AssignParams_RealTransEven(cr0, RootPlan(<<cr0, node>>))
             IN  [node EXCEPT !.childNodes = <<sbccZ, sbccY, crplan>>]

\* Real3DEvenNode::AssignParams_internal_SBCR (4 children)
AssignParams_Real3D_SBCR(node, rootPlan) ==
    LET z == node.childNodes[1]
        y == node.childNodes[2]
        x == node.childNodes[3]
        sbcrZ == WithLayout(z, <<node.inStride[3], node.inStride[1]>>, node.iDist,
                            <<1, z.length[1]>>, node.iDist)
        sbcrY == WithLayout(y, <<y.length[2], 1>>, y.length[1] * y.length[2],
                            <<1, y.length[1]>>, y.length[1] * y.length[2])
        sbcrX == [WithLayout(x, <<x.length[2], 1>>, (x.length[1] + 1) * x.length[2],
                             <<1, x.length[1]>>, x.length[1] * x.length[2])
                     EXCEPT !.ebtype = "C2Real_PRE"]
        applyCallback == WithLayout(node.childNodes[Len(node.childNodes)],
                                    rootPlan.outStride, rootPlan.oDist,
                                    rootPlan.outStride, rootPlan.oDist)
    IN  [node EXCEPT !.childNodes = <<sbcrZ, sbcrY, sbcrX, applyCallback>>]

\* Real3DEvenNode::AssignParams_internal_TR_pairs. The transposes' outStride is
\* filled by push_back, appending to what it already holds.
AssignParams_Real3D_TR_pairs(node) ==
    IF node.inArrayType = "real"
    THEN LET ZXYout(t)  == t.outStride \o <<t.length[3] * t.length[2], 1, t.length[2]>>
             ColIn(s)   == Swap(Swap(s, 1, 2), 2, 3)
             rc0 == [WithLayout(node.childNodes[1], node.inStride, node.iDist,
                                node.outStride, node.oDist) EXCEPT !.dimension = 1]
             rcplan == AssignParams_RealTransEven(rc0, RootPlan(<<rc0, node>>))
             trans1 == WithLayout(node.childNodes[2], rcplan.outStride, rcplan.oDist,
                                  ZXYout(node.childNodes[2]), rcplan.oDist)
             c1plan == [WithLayout(node.childNodes[3], ColIn(trans1.outStride), trans1.oDist,
                                   ColIn(trans1.outStride), trans1.oDist)
                           EXCEPT !.dimension = 1]
             trans2 == WithLayout(node.childNodes[4], c1plan.outStride, c1plan.oDist,
                                  ZXYout(node.childNodes[4]), c1plan.oDist)
             c2plan == [WithLayout(node.childNodes[5], ColIn(trans2.outStride), trans2.oDist,
                                   ColIn(trans2.outStride), trans2.oDist)
                           EXCEPT !.dimension = 1]
             trans3 == WithLayout(node.childNodes[6], c2plan.outStride, c2plan.oDist,
                                  Swap(Swap(node.outStride, 2, 3), 1, 2), node.oDist)
         IN  [node EXCEPT !.childNodes = <<rcplan, trans1, c1plan, trans2, c2plan, trans3>>]
    ELSE LET XYZout(t)  == LET a == t.outStride \o <<t.length[2], 1>>
                           IN  Append(a, a[1] * t.length[1])
             ColIn(s)   == <<s[2], s[1], s[3]>>
             trans3 == WithLayout(node.childNodes[1], Swap(node.inStride, 2, 3), node.iDist,
                                  XYZout(node.childNodes[1]), node.iDist)
             c2plan == [WithLayout(node.childNodes[2], ColIn(trans3.outStride), trans3.oDist,
                                   ColIn(trans3.outStride), trans3.oDist)
                           EXCEPT !.dimension = 1]
             trans2 == WithLayout(node.childNodes[3], Swap(c2plan.outStride, 2, 3), c2plan.oDist,
                                  XYZout(node.childNodes[3]), c2plan.oDist)
             c1plan == [WithLayout(node.childNodes[4], ColIn(trans2.outStride), trans2.oDist,
                                   ColIn(trans2.outStride), trans2.oDist)
                           EXCEPT !.dimension = 1]
             trans1 == WithLayout(node.childNodes[5], Swap(c1plan.outStride, 2, 3), c1plan.oDist,
                                  XYZout(node.childNodes[5]), c1plan.oDist)
             cr0 == [WithLayout(node.childNodes[Len(node.childNodes)],
                                ColIn(trans1.outStride), trans1.oDist,
                                node.outStride, node.oDist) EXCEPT !.dimension = 1]
             crplan == AssignParams_RealTransEven(cr0, RootPlan(<<cr0, node>>))
         IN  [node EXCEPT !.childNodes = <<trans3, c2plan, trans2, c1plan, trans1, crplan>>]

\* Real3DEvenNode::AssignParams_internal
AssignParams_Real3DEven(node) ==
    CASE node.solution = "INPLACE_SBCC" -> AssignParams_Real3D_SBCC(node)
      [] node.solution = "SBCR"         -> AssignParams_Real3D_SBCR(node, RootPlan(<<node>>))
      [] OTHER                          -> AssignParams_Real3D_TR_pairs(node)

-----------------------------------------------------------------------------
(* The transform requests, catalogs and collaborator answers of the model *)

\* real lengths of the fastest dimension for the even-length schemes
EvenLengths == {4, 2048, 2050, 4094, 4096}
\* a subset of them for the 2-D and 3-D schemes
EvenLengthsND == {4, 2050, 4096}
\* real lengths of the fastest dimension for the embed-in-complex scheme
AnyLengths == {3, 4, 5}
\* lengths of the higher dimensions
HighLengths == {3, 192}
HighPairs == {<<3, 3>>, <<3, 192>>, <<192, 192>>}

Precisions == {"single", "double"}
Archs      == {"gfx908", "gfx1030"}
Placements == {"inplace", "notinplace"}

\* strides of a row-major buffer whose rows are padded by pad * unit elements,
\* and the distance between batches, padded by gap * unit elements
PaddedLayout(len, pad, gap, unit) ==
    LET lay == ContiguousFrom(<<1>>, len[1] + pad * unit, len, 2)
    IN  [stride |-> lay.stride,
         dist   |-> (IF Len(len) = 1 THEN len[1] ELSE lay.dist) + gap * unit]

HalfSpectrum(len) == [len EXCEPT ![1] = (len[1] \div 2) + 1]

\* the root node of a request: lengths in real units, the layout of the real
\* side padded in units of unit reals, that of the complex side in complexes
Request(scheme, dimension, direction, len, padIn, gapIn, padOut, gapOut, unit) ==
    LET real == direction = -1
        lin  == IF real THEN PaddedLayout(len, padIn, gapIn, unit)
                ELSE PaddedLayout(HalfSpectrum(len), padIn, gapIn, 1)
        lout == IF real THEN PaddedLayout(HalfSpectrum(len), padOut, gapOut, 1)
                ELSE PaddedLayout(len, padOut, gapOut, unit)
    IN  [Node(scheme) EXCEPT !.dimension = dimension,
                             !.direction = direction,
                             !.inArrayType = IF real THEN "real" ELSE "hermitian_interleaved",
                             !.length = len,
                             !.inStride = lin.stride, !.iDist = lin.dist,
                             !.outStride = lout.stride, !.oDist = lout.dist]

Pads == 0..MaxPad

NoPool == [sbcc |-> {}, normal |-> {}, tpb |-> 0, sbcr |-> {}]

\* catalogs: block column kernels for no or every higher length, regular
\* kernels for no or every higher length with 4 or 8 transforms per block
Pools ==
    {[sbcc |-> s, normal |-> n.l, tpb |-> n.t, sbcr |-> {}] :
        s \in {{}, HighLengths},
        n \in {[l |-> {}, t |-> 0], [l |-> HighLengths, t |-> 4], [l |-> HighLengths, t |-> 8]}}

\* the same, with block column-to-real kernels for no or every length
AllSBCR == HighLengths \cup {l \div 2 : l \in EvenLengthsND}
Pools3D == {[p EXCEPT !.sbcr = r] : p \in Pools, r \in {{}, AllSBCR}}

\* every shim the builders may propose, and those left when the first choice
\* of each site is not available
AllShims ==
    {FuseShim("FT_STOCKHAM_R2C_TRANSPOSE", <<1, 2>>), FuseShim("FT_R2C_TRANSPOSE", <<1, 2, 3>>),
     FuseShim("FT_STOCKHAM_WITH_TRANS", <<3, 4>>), FuseShim("FT_STOCKHAM_WITH_TRANS", <<5, 6>>),
     FuseShim("FT_TRANS_WITH_STOCKHAM", <<1, 2>>), FuseShim("FT_TRANSPOSE_C2R", <<3, 4>>),
     FuseShim("FT_TRANSPOSE_C2R", <<2, 3>>), FuseShim("FT_TRANSPOSE_C2R", <<5, 6>>),
     FuseShim("FT_STOCKHAM_WITH_TRANS_Z_XY", <<2, 3, 4>>),
     FuseShim("FT_STOCKHAM_WITH_TRANS_Z_XY", <<4, 5, 6>>),
     FuseShim("FT_STOCKHAM_WITH_TRANS_XY_Z", <<2, 3, 4>>)}
SecondShims ==
    {sh \in AllShims : sh.type \notin {"FT_STOCKHAM_R2C_TRANSPOSE", "FT_STOCKHAM_WITH_TRANS_Z_XY"}}

\* single: the complex FFT of the fastest dimension is a single kernel;
\* fuseDefault: the value a RealTransEvenNode is constructed with;
\* fusable: the shims for which IsSchemeFusable answers true
Oracles1D == {[single |-> s, fuseDefault |-> f, fusable |-> {}] : s \in BOOLEAN, f \in BOOLEAN}
OraclesND ==
    {[single |-> s, fuseDefault |-> f.d, fusable |-> f.s] :
        s \in BOOLEAN,
        f \in {[d |-> FALSE, s |-> {}], [d |-> TRUE, s |-> AllShims], [d |-> TRUE, s |-> SecondShims]}}

\* numbers of transforms in a request
Batches == {1, 2}

RequestsCmplx ==
    {[Request("CS_REAL_TRANSFORM_USING_CMPLX", Len(len), d, len, pi, gi, pi, go, 1)
         EXCEPT !.batch = b] :
        d \in {-1, 1}, len \in {<<l>> : l \in AnyLengths} \cup {<<l, 3>> : l \in AnyLengths},
        pi \in Pads, gi \in Pads, go \in Pads, b \in Batches}

\* the direction 0 stands for any value that is neither forward nor inverse
RequestsEven ==
    {[Request("CS_REAL_TRANSFORM_EVEN", 1, d, <<l>>, 0, gi, 0, go, 2) EXCEPT !.batch = b] :
        d \in {-1, 1, 0}, l \in EvenLengths, gi \in Pads, go \in Pads, b \in Batches}

Requests2D ==
    {[Request("CS_REAL_2D_EVEN", 2, d, <<l, h>>, pd, gp0, pd, gp0, 2)
         EXCEPT !.precision = pr, !.batch = b] :
        d \in {-1, 1}, l \in EvenLengthsND, h \in HighLengths, pd \in Pads, gp0 \in Pads,
        pr \in Precisions, b \in Batches}

Requests3D ==
    {[Request("CS_REAL_3D_EVEN", 3, d, <<l, h[1], h[2]>>, lay[1], lay[2], lay[1], lay[2], 2)
         EXCEPT !.precision = pr, !.placement = pl, !.arch = a, !.batch = lay[3]] :
        d \in {-1, 1}, l \in EvenLengthsND, h \in HighPairs,
        lay \in {<<0, 0, 1>>, <<0, 0, 2>>, <<0, MaxPad, 1>>, <<MaxPad, 0, 1>>},
        pr \in Precisions, pl \in Placements, a \in Archs}

-----------------------------------------------------------------------------
(* Plan compilation: the root is built, then its layout is propagated *)

leafIdle == [scheme |-> "none"]
noCall   == [fn |-> "none"]

noRepo   == [live |-> {}, computed |-> <<>>]
RepoIdle == planNodes = <<>> /\ repo = noRepo /\ log = <<>>

LeafUnchanged == UNCHANGED <<leaf, keys, gp, lpc, call, ret, planNodes, repo, log>>

Init ==
    /\ pc = "request"
    /\ \/ root \in RequestsCmplx /\ pool = NoPool /\ oracle \in Oracles1D /\ ~oracle.fuseDefault
       \/ /\ oracle \in Oracles1D /\ pool = NoPool
          /\ root \in {[r EXCEPT !.try_fuse_pre_post_processing = oracle.fuseDefault] :
                          r \in RequestsEven}
       \/ root \in Requests2D /\ pool \in Pools /\ oracle \in OraclesND
       \/ root \in Requests3D /\ pool \in Pools3D /\ oracle \in OraclesND
    /\ req = root
    /\ leaf = leafIdle /\ keys = <<>> /\ gp = 0 /\ lpc = "off"
    /\ call = noCall /\ ret = noCall /\ RepoIdle

\* "assert(length[0] % 2 == 0)" at the head of the even-length builders
FastestIsEven(node) == node.length[1] % 2 = 0
\* the outcomes of the assert: it holds, or the build has no asserts (NDEBUG)
\* and goes on; otherwise the compilation ends
AssertPasses(cond, ndebug) == cond \/ ndebug

\* RealTransCmplxNode::BuildTree_internal on the root
BuildTree_USING_CMPLX ==
    /\ pc = "request" /\ root.scheme = "CS_REAL_TRANSFORM_USING_CMPLX"
    /\ root' = BuildTree_RealTransCmplx(root, oracle.single)
    /\ pc' = "built"
    /\ UNCHANGED <<req, pool, oracle>> /\ LeafUnchanged

\* RealTransEvenNode::BuildTree_internal on the root
BuildTree_EVEN ==
    /\ pc = "request" /\ root.scheme = "CS_REAL_TRANSFORM_EVEN"
    /\ \E ndebug \in BOOLEAN :
          IF AssertPasses(FastestIsEven(root), ndebug)
          THEN root' = BuildTree_RealTransEven(root, oracle.single) /\ pc' = "built"
          ELSE root' = root /\ pc' = "abort"
    /\ UNCHANGED <<req, pool, oracle>> /\ LeafUnchanged

\* Real2DEvenNode::BuildTree_internal on the root
BuildTree_2D_EVEN ==
    /\ pc = "request" /\ root.scheme = "CS_REAL_2D_EVEN"
    /\ \E ndebug \in BOOLEAN :
          IF AssertPasses(FastestIsEven(root), ndebug)
          THEN root' = BuildTree_Real2DEven(root, pool, oracle) /\ pc' = "built"
          ELSE root' = root /\ pc' = "abort"
    /\ UNCHANGED <<req, pool, oracle>> /\ LeafUnchanged

\* Real3DEvenNode::BuildTree_internal on the root
BuildTree_3D_EVEN ==
    /\ pc = "request" /\ root.scheme = "CS_REAL_3D_EVEN"
    /\ \E ndebug \in BOOLEAN :
          IF AssertPasses(FastestIsEven(root), ndebug)
          THEN root' = BuildTree_Real3DEven(root, pool, oracle) /\ pc' = "built"
          ELSE root' = root /\ pc' = "abort"
    /\ UNCHANGED <<req, pool, oracle>> /\ LeafUnchanged

\* RealTransCmplxNode::AssignParams_internal on the root
AssignParams_USING_CMPLX ==
    /\ pc = "built" /\ root.scheme = "CS_REAL_TRANSFORM_USING_CMPLX"
    /\ root' = AssignParams_RealTransCmplx(root)
    /\ pc' = "assigned"
    /\ UNCHANGED <<req, pool, oracle>> /\ LeafUnchanged

\* RealTransEvenNode::AssignParams_internal on the root. On a node without
\* children the assert on the number of children fails, and without asserts
\* childNodes[0] is read past the end of the vector: the compilation ends.
AssignParams_EVEN ==
    /\ pc = "built" /\ root.scheme = "CS_REAL_TRANSFORM_EVEN"
    /\ IF Len(root.childNodes) \in {2, 3}
       THEN root' = AssignParams_RealTransEven(root, RootPlan(<<root>>)) /\ pc' = "assigned"
       ELSE root' = root /\ pc' = "abort"
    /\ UNCHANGED <<req, pool, oracle>> /\ LeafUnchanged

\* Real2DEvenNode::AssignParams_internal on the root
AssignParams_2D_EVEN ==
    /\ pc = "built" /\ root.scheme = "CS_REAL_2D_EVEN"
    /\ root' = AssignParams_Real2DEven(root)
    /\ pc' = "assigned"
    /\ UNCHANGED <<req, pool, oracle>> /\ LeafUnchanged

\* Real3DEvenNode::AssignParams_internal on the root
AssignParams_3D_EVEN ==
    /\ pc = "built" /\ root.scheme = "CS_REAL_3D_EVEN"
    /\ root' = AssignParams_Real3DEven(root)
    /\ pc' = "assigned"
    /\ UNCHANGED <<req, pool, oracle>> /\ LeafUnchanged

\* AssignParams_internal of the root's class
AssignParams_internal(node) ==
    CASE node.scheme = "CS_REAL_TRANSFORM_USING_CMPLX" -> AssignParams_RealTransCmplx(node)
      [] node.scheme = "CS_REAL_TRANSFORM_EVEN" ->
             AssignParams_RealTransEven(node, RootPlan(<<node>>))
      [] node.scheme = "CS_REAL_2D_EVEN" -> AssignParams_Real2DEven(node)
      [] node.scheme = "CS_REAL_3D_EVEN" -> AssignParams_Real3DEven(node)

\* AssignParams_internal run a second time on the propagated root, whose own
\* strides and distances are as before; call keeps the tree of the first run
AssignParams_again ==
    /\ pc = "assigned"
    /\ root' = AssignParams_internal(root)
    /\ call' = [fn |-> "AssignParams_again", first |-> root]
    /\ pc' = "reassigned"
    /\ UNCHANGED <<req, pool, oracle, leaf, keys, gp, lpc, ret, planNodes, repo, log>>

Next ==
    \/ BuildTree_USING_CMPLX
    \/ BuildTree_EVEN
    \/ BuildTree_2D_EVEN
    \/ BuildTree_3D_EVEN
    \/ AssignParams_USING_CMPLX
    \/ AssignParams_EVEN
    \/ AssignParams_2D_EVEN
    \/ AssignParams_3D_EVEN
    \/ AssignParams_again

Spec == Init /\ [][Next]_vars

-----------------------------------------------------------------------------
(* The choice of the decomposition rule of a real transform *)

EvenSchemes == {"CS_REAL_TRANSFORM_EVEN", "CS_REAL_2D_EVEN", "CS_REAL_3D_EVEN"}

\* variant that picks the rule by the number of dimensions alone (C21 depends
\* on the test of the fastest length)
RealScheme_by_dimension(length) ==
    CASE Len(length) = 1 -> "CS_REAL_TRANSFORM_EVEN"
      [] Len(length) = 2 -> "CS_REAL_2D_EVEN"
      [] OTHER           -> "CS_REAL_3D_EVEN"

\* the rule of a real transform: embed-in-complex when the fastest length is
\* not even, the even-length rule of its number of dimensions otherwise
RealScheme(length) ==
    IF length[1] % 2 # 0 THEN "CS_REAL_TRANSFORM_USING_CMPLX"
    ELSE RealScheme_by_dimension(length)

\* real transforms of 1, 2 and 3 dimensions, odd and even fastest lengths
RouteLengths ==
    LET fast == {3, 4, 5, 2050}
    IN  {<<l>> : l \in fast} \cup {<<l, h>> : l \in fast, h \in HighLengths}
        \cup {<<l, h[1], h[2]>> : l \in fast, h \in HighPairs}
RouteRequests ==
    {Request("CS_NONE", Len(len), d, len, 0, gi, 0, go, 1) :
        len \in RouteLengths, d \in {-1, 1}, gi \in Pads, go \in Pads}

InitRoute ==
    /\ pc = "route"
    /\ root \in RouteRequests /\ pool \in Pools3D /\ oracle \in OraclesND
    /\ req = root
    /\ leaf = leafIdle /\ keys = <<>> /\ gp = 0 /\ lpc = "off"
    /\ call = noCall /\ ret = noCall /\ RepoIdle

\* the root gets its scheme; an even-length 1-D node is constructed with the
\* default of try_fuse_pre_post_processing
RouteRealTransform ==
    /\ pc = "route"
    /\ LET scheme == RealScheme(root.length)
       IN  root' = [root EXCEPT !.scheme = scheme,
                                !.try_fuse_pre_post_processing =
                                    scheme = "CS_REAL_TRANSFORM_EVEN" /\ oracle.fuseDefault]
    /\ req' = root'
    /\ pc' = "request"
    /\ UNCHANGED <<pool, oracle>> /\ LeafUnchanged

NextRoute ==
    \/ RouteRealTransform
    \/ BuildTree_USING_CMPLX
    \/ BuildTree_EVEN
    \/ BuildTree_2D_EVEN
    \/ BuildTree_3D_EVEN

SpecRoute == InitRoute /\ [][NextRoute]_vars

-----------------------------------------------------------------------------
(* Leaf kernel nodes: kernel keys, kernel check and grid parameters *)

\* a kernel key (FMKey) with the kernel configuration it carries
FMKey(lengths, precision, scheme, ebType, half_lds, direct_to_from_reg) ==
    [lengths |-> lengths, precision |-> precision, scheme |-> scheme,
     kernel_config |-> [ebType |-> ebType, half_lds |-> half_lds,
                        direct_to_from_reg |-> direct_to_from_reg]]

\* FMKey::EmptyFMKey()
EmptyFMKey == FMKey(<<0, 0>>, "none", "CS_NONE", "NONE", FALSE, FALSE)

\* the key generated from the node itself when no key is specified
AutoGenKey(l) ==
    FMKey(<<l.length[1], IF l.dimension = 2 THEN l.length[2] ELSE 0>>,
          l.precision, l.scheme, "NONE", FALSE, FALSE)

\* LeafNode::GetKernelKey
GetKernelKey(l) ==
    IF ~l.externalKernel THEN EmptyFMKey
    ELSE IF l.specified_key # <<>> THEN l.specified_key[1]
    ELSE AutoGenKey(l)

\* function_pool: a set of kernels [key, half_lds, direct_to_from_reg]
function_pool_has_function(p, key) == \E k \in p : k.key = key
function_pool_get_kernel(p, key)   == CHOOSE k \in p : k.key = key
function_pool_add_new_kernel(p, key) ==
    IF function_pool_has_function(p, key) THEN p
    ELSE p \cup {[key |-> key, half_lds |-> key.kernel_config.half_lds,
                  direct_to_from_reg |-> key.kernel_config.direct_to_from_reg]}

\* variant of the consistency test that does not compare the embedded type
\* (C7 depends on the full test)
KeyMismatch_noebtype(l, assignedKey) ==
    \/ l.length[1] # assignedKey.lengths[1]
    \/ l.dimension = 2 /\ l.length[2] # assignedKey.lengths[2]
    \/ l.precision # assignedKey.precision
    \/ l.scheme # assignedKey.scheme

\* "check if the assigned key is consistent with the node information"
KeyMismatch(l, assignedKey) ==
    \/ l.length[1] # assignedKey.lengths[1]
    \/ l.dimension = 2 /\ l.length[2] # assignedKey.lengths[2]
    \/ l.precision # assignedKey.precision
    \/ l.scheme # assignedKey.scheme
    \/ l.ebtype # assignedKey.kernel_config.ebType

\* the result of LeafNode::KernelCheck: what it returns and what it leaves behind
CheckResult(ok, l, ks, p) == [ok |-> ok, leaf |-> l, keys |-> ks, pool |-> p]

\* variant that leaves an empty front key in the list (C26 depends on the erase)
TakeAssignedKey_keep_empty(l, ks, p) ==
    IF ks = <<>> THEN [early |-> FALSE, leaf |-> l, keys |-> ks, pool |-> p]
    ELSE LET assignedKey == Head(ks)
         IN  IF assignedKey = EmptyFMKey
             THEN [early |-> FALSE, leaf |-> l, keys |-> ks, pool |-> p]
             ELSE IF KeyMismatch(l, assignedKey)
             THEN [early |-> TRUE, leaf |-> l, keys |-> Tail(ks), pool |-> p]
             ELSE [early |-> FALSE,
                   leaf  |-> [l EXCEPT !.specified_key = <<assignedKey>>],
                   keys  |-> Tail(ks),
                   pool  |-> function_pool_add_new_kernel(p, assignedKey)]

\* LeafNode::KernelCheck, the part that takes the front key; early |-> TRUE
\* is the "return false" of an inconsistent key
TakeAssignedKey(l, ks, p) ==
    IF ks = <<>> THEN [early |-> FALSE, leaf |-> l, keys |-> ks, pool |-> p]
    ELSE LET assignedKey == Head(ks)
         IN  IF assignedKey = EmptyFMKey
             THEN [early |-> FALSE, leaf |-> l, keys |-> Tail(ks), pool |-> p]
             ELSE IF KeyMismatch(l, assignedKey)
             THEN [early |-> TRUE, leaf |-> l, keys |-> Tail(ks), pool |-> p]
             ELSE [early |-> FALSE,
                   leaf  |-> [l EXCEPT !.specified_key = <<assignedKey>>],
                   keys  |-> Tail(ks),
                   pool  |-> function_pool_add_new_kernel(p, assignedKey)]

\* LeafNode::KernelCheck
KernelCheck(l, ks, p) ==
    IF ~l.externalKernel
    THEN IF ks # <<>>
         THEN IF Head(ks) # EmptyFMKey THEN CheckResult(FALSE, l, ks, p)
              ELSE CheckResult(TRUE, l, Tail(ks), p)
         ELSE CheckResult(TRUE, l, ks, p)
    ELSE LET t == TakeAssignedKey([l EXCEPT !.specified_key = <<>>], ks, p)
             key == GetKernelKey(t.leaf)
         IN  IF t.early THEN CheckResult(FALSE, t.leaf, t.keys, t.pool)
             ELSE IF ~function_pool_has_function(t.pool, key)
             THEN CheckResult(FALSE, t.leaf, t.keys, t.pool)
             ELSE CheckResult(TRUE,
                      [t.leaf EXCEPT !.dir2regMode =
                          IF function_pool_get_kernel(t.pool, key).direct_to_from_reg
                          THEN "TRY_ENABLE_IF_SUPPORT" ELSE "FORCE_OFF_OR_NOT_SUPPORT"],
                      t.keys, t.pool)

\* complex_type_size(precision), in bytes
complex_type_size(precision) == IF precision = "single" THEN 8 ELSE 16

\* "if(kernel.half_lds ...) gp.lds_bytes /= 2" of both half-LDS cases
HalfLds(l, p) ==
    LET key == GetKernelKey(l)
    IN  \/ /\ l.scheme = "CS_KERNEL_STOCKHAM" /\ l.ebtype = "NONE"
           /\ function_pool_has_function(p, key)
           /\ function_pool_get_kernel(p, key).half_lds
           /\ ~(is_device_gcn_arch(l.arch, "gfx90a") /\ l.length[1] \in {343, 49})
        \/ /\ l.scheme = "CS_KERNEL_STOCKHAM_BLOCK_CC"
           /\ l.dir2regMode = "TRY_ENABLE_IF_SUPPORT" /\ l.ebtype = "NONE"
           /\ function_pool_has_function(p, key)
           /\ function_pool_get_kernel(p, key).half_lds

\* gp.lds_bytes as LeafNode::SetupGridParamAndFuncPtr sums it up
lds_bytes(l, p) ==
    LET full == l.lds * complex_type_size(l.precision)
    IN  IF HalfLds(l, p) THEN full \div 2 ELSE full

\* variant without the final test of the device limit (C6 depends on the test)
LdsFits_unchecked(bytes, sharedMemPerBlock) == TRUE

\* "if(gp.lds_bytes > deviceProp.sharedMemPerBlock) throw", negated
LdsFits(bytes, sharedMemPerBlock) == ~(bytes > sharedMemPerBlock)

LeafSchemes == {"CS_KERNEL_STOCKHAM", "CS_KERNEL_STOCKHAM_BLOCK_CC", "CS_KERNEL_TRANSPOSE"}
LeafLengths == {<<49, 4>>, <<64, 4>>}
LeafArchs   == {"gfx908", "gfx90a"}
LdsSizes    == {0, 64}
SharedMemSizes == {0, 256, 512}
EbTypes     == {"NONE", "Real2C_POST"}

Leaves ==
    [scheme : LeafSchemes, dimension : {1, 2}, length : LeafLengths,
     precision : Precisions, ebtype : EbTypes, externalKernel : BOOLEAN,
     lds : LdsSizes, arch : LeafArchs, sharedMemPerBlock : SharedMemSizes,
     specified_key : {<<>>}, dir2regMode : {"FORCE_OFF_OR_NOT_SUPPORT"}]

\* the keys a solution map may hold for leaf l: consistent ones, and ones that
\* disagree in one property
ConsistentKeys(l) ==
    {FMKey(<<l.length[1], l.length[2]>>, l.precision, l.scheme, l.ebtype, h, d) :
        h \in BOOLEAN, d \in BOOLEAN}
InconsistentKeys(l) ==
    LET k == FMKey(<<l.length[1], l.length[2]>>, l.precision, l.scheme, l.ebtype, FALSE, FALSE)
    IN  {[k EXCEPT !.lengths[1] = 81],
         [k EXCEPT !.lengths[2] = 8],
         [k EXCEPT !.precision = IF l.precision = "single" THEN "double" ELSE "single"],
         [k EXCEPT !.scheme = "CS_KERNEL_STOCKHAM_BLOCK_RC"],
         [k EXCEPT !.kernel_config.ebType = IF l.ebtype = "NONE" THEN "C2Real_PRE" ELSE "NONE"]}
KeyLists(l) ==
    {<<>>, <<EmptyFMKey>>} \cup {<<k>> : k \in ConsistentKeys(l) \cup InconsistentKeys(l)}

\* the catalog either has no kernel for the node's generated key or has one
Catalogs(l) ==
    {{}} \cup {{[key |-> AutoGenKey(l), half_lds |-> h, direct_to_from_reg |-> d]} :
                  h \in BOOLEAN, d \in BOOLEAN}

TreeUnchanged == UNCHANGED <<pc, req, root, oracle, call, ret, planNodes, repo, log>>

InitLeaf ==
    /\ pc = "leaf" /\ root = leafIdle /\ oracle = leafIdle
    /\ leaf \in {l \in Leaves : l.externalKernel = (l.scheme # "CS_KERNEL_TRANSPOSE")}
    /\ keys \in KeyLists(leaf)
    /\ pool \in Catalogs(leaf)
    /\ req = [kernel_keys |-> keys, pool |-> pool]
    /\ gp = 0 /\ lpc = "sanity"
    /\ call = noCall /\ ret = noCall /\ RepoIdle

\* LeafNode::SanityCheck: throws when KernelCheck fails
SanityCheck ==
    /\ lpc = "sanity"
    /\ LET r == KernelCheck(leaf, keys, pool)
       IN  /\ leaf' = r.leaf /\ keys' = r.keys /\ pool' = r.pool
           /\ lpc' = IF r.ok THEN "checked" ELSE "sanity_failed"
    /\ gp' = gp /\ TreeUnchanged

\* the caller of SanityCheck: after a failed check of the supplied keys it
\* selects the default kernel, and aborts when there is none
FallbackToDefault ==
    /\ lpc = "sanity_failed"
    /\ LET r == KernelCheck(leaf, <<>>, pool)
       IN  /\ leaf' = r.leaf /\ keys' = <<>> /\ pool' = r.pool
           /\ lpc' = IF r.ok THEN "checked_default" ELSE "aborted"
    /\ gp' = gp /\ TreeUnchanged

\* LeafNode::SetupGridParamAndFuncPtr: throws when the request exceeds the device limit
SetupGridParamAndFuncPtr ==
    /\ lpc \in {"checked", "checked_default"}
    /\ gp' = lds_bytes(leaf, pool)
    /\ lpc' = IF LdsFits(gp', leaf.sharedMemPerBlock) THEN "ready" ELSE "lds_error"
    /\ UNCHANGED <<leaf, keys, pool>> /\ TreeUnchanged

NextLeaf ==
    \/ SanityCheck
    \/ FallbackToDefault
    \/ SetupGridParamAndFuncPtr

SpecLeaf == InitLeaf /\ [][NextLeaf]_vars

-----------------------------------------------------------------------------
(* The leaves of a plan checked one after the other against one list of keys *)

\* up to MaxLeaves leaves and MaxKeys supplied keys
MaxLeaves == 2
MaxKeys   == 3

\* an external kernel, an external 2-D kernel and a built-in transpose
WalkLeaves ==
    {l \in Leaves :
        /\ l.length = <<64, 4>> /\ l.precision = "single" /\ l.ebtype = "NONE"
        /\ l.lds = 0 /\ l.arch = "gfx908" /\ l.sharedMemPerBlock = 0
        /\ \/ l.scheme = "CS_KERNEL_STOCKHAM" /\ l.externalKernel
           \/ l.scheme = "CS_KERNEL_TRANSPOSE" /\ ~l.externalKernel /\ l.dimension = 2}
\* the empty key, the key of the 1-D kernel, that of the 2-D kernel, a key of no leaf
WalkKeys ==
    {EmptyFMKey,
     FMKey(<<64, 4>>, "single", "CS_KERNEL_STOCKHAM", "NONE", FALSE, FALSE),
     FMKey(<<64, 8>>, "single", "CS_KERNEL_STOCKHAM", "NONE", FALSE, TRUE),
     FMKey(<<81, 4>>, "single", "CS_KERNEL_STOCKHAM", "NONE", FALSE, FALSE)}
\* the catalog has the generated kernels of the leaves or none
WalkCatalogs ==
    {{}, {[key |-> AutoGenKey(l), half_lds |-> FALSE, direct_to_from_reg |-> FALSE] :
             l \in {x \in WalkLeaves : x.externalKernel}}}
KeyWalks ==
    [leaves : UNION {[1..n -> WalkLeaves] : n \in 1..MaxLeaves},
     kernel_keys : UNION {[1..n -> WalkKeys] : n \in 0..MaxKeys},
     pool : WalkCatalogs]

InitKeys ==
    /\ pc = "keys" /\ root = leafIdle /\ oracle = leafIdle
    /\ req \in KeyWalks
    /\ keys = req.kernel_keys /\ pool = req.pool
    /\ leaf = leafIdle /\ gp = 0 /\ lpc = "walk"
    /\ call = noCall /\ ret = noCall /\ RepoIdle

\* LeafNode::SanityCheck of the next leaf: KernelCheck on the shared list, a
\* throw when it fails. gp counts the leaves checked; call keeps the leaf and
\* the list the check started from
SanityCheck_next ==
    /\ pc = "keys" /\ lpc = "walk"
    /\ LET l == req.leaves[gp + 1]
           r == KernelCheck(l, keys, pool)
       IN  /\ call' = [fn |-> "KernelCheck", leaf |-> l, keys |-> keys, ok |-> r.ok]
           /\ leaf' = r.leaf /\ keys' = r.keys /\ pool' = r.pool
           /\ gp' = IF r.ok THEN gp + 1 ELSE gp
           /\ lpc' = IF ~r.ok THEN "threw"
                     ELSE IF gp + 1 = Len(req.leaves) THEN "walked" ELSE "walk"
    /\ UNCHANGED <<pc, req, root, oracle, ret, planNodes, repo, log>>

NextKeys ==
    \/ SanityCheck_next

SpecKeys == InitKeys /\ [][NextKeys]_vars

-----------------------------------------------------------------------------
(* Contiguous dimensions folded into the batch *)

\* TreeNode::CollapseContiguousDims. A node here carries the fields the function
\* reads and writes; collapsibleDims is what the virtual CollapsibleDims() of
\* the node's class returns, dimensions in ascending order (1-based)

\* the lambda collectCollapse, at position k of collapsibleDims going backwards
RECURSIVE collectCollapseFrom(_, _, _, _, _, _, _)
collectCollapseFrom(collapsibleDims, k, curStride, newBatch, length, stride, dimsToCollapse) ==
    LET result == [dims |-> dimsToCollapse, batch |-> newBatch]
        i      == collapsibleDims[k]
    IN  IF k = 0 THEN result
        ELSE IF curStride % stride[i] # 0 THEN result
        ELSE IF curStride \div stride[i] # length[i] THEN result
        ELSE collectCollapseFrom(collapsibleDims, k - 1, stride[i], newBatch * length[i],
                                 length, stride, Append(dimsToCollapse, i))
collectCollapse(collapsibleDims, dist, batch, length, stride) ==
    collectCollapseFrom(collapsibleDims, Len(collapsibleDims), dist, batch, length, stride, <<>>)

\* vector::erase(begin() + i)
EraseAt(v, i) == SubSeq(v, 1, i - 1) \o SubSeq(v, i + 1, Len(v))

\* variant of doCollapse that leaves the distance alone (C24 depends on it)
RECURSIVE doCollapse_keep_dist(_, _, _, _)
doCollapse_keep_dist(dist, dimsToCollapse, length, stride) ==
    IF dimsToCollapse = <<>> THEN [dist |-> dist, length |-> length, stride |-> stride]
    ELSE LET i == Head(dimsToCollapse)
         IN  doCollapse_keep_dist(dist, Tail(dimsToCollapse), EraseAt(length, i), EraseAt(stride, i))

\* the lambda doCollapse
RECURSIVE doCollapse(_, _, _, _)
doCollapse(dist, dimsToCollapse, length, stride) ==
    IF dimsToCollapse = <<>> THEN [dist |-> dist, length |-> length, stride |-> stride]
    ELSE LET i == Head(dimsToCollapse)
         IN  doCollapse(dist \div length[i], Tail(dimsToCollapse),
                        EraseAt(length, i), EraseAt(stride, i))

\* variant that compares the lists of dimensions only (C25 depends on it)
SidesAgree_dims_only(in, out) == in.dims = out.dims

\* the negation of "inputDimsToCollapse != outputDimsToCollapse || newInputBatch != newOutputBatch"
SidesAgree(in, out) == in.dims = out.dims /\ in.batch = out.batch

\* the comment pushed for the collapsed dimensions: their lengths, lowest first
CollapseComment(dimsToCollapse, length) ==
    [k \in 1..Len(dimsToCollapse) |-> length[dimsToCollapse[Len(dimsToCollapse) + 1 - k]]]

RECURSIVE CollapseContiguousDims(_)
CollapseContiguousDims(node0) ==
    LET node == [node0 EXCEPT !.childNodes =
                     [c \in DOMAIN node0.childNodes |->
                         CollapseContiguousDims(node0.childNodes[c])]]
        collapsibleDims  == node.collapsibleDims
        in  == collectCollapse(collapsibleDims, node.iDist, node.batch, node.length, node.inStride)
        outputLengthTemp == GetOutputLength(node)
        out == collectCollapse(collapsibleDims, node.oDist, node.batch,
                               outputLengthTemp, node.outStride)
        ci  == doCollapse(node.iDist, in.dims, node.length, node.inStride)
        co  == doCollapse(node.oDist, out.dims, outputLengthTemp, node.outStride)
    IN  IF collapsibleDims = <<>> THEN node
        ELSE IF ~SidesAgree(in, out) THEN node
        ELSE [node EXCEPT
                 !.comments = IF in.dims # <<>>
                              THEN Append(@, CollapseComment(in.dims, node.length)) ELSE @,
                 !.iDist = ci.dist, !.length = ci.length, !.inStride = ci.stride,
                 !.oDist = co.dist, !.outStride = co.stride,
                 !.batch = in.batch,
                 !.outputLength = IF @ # <<>> THEN co.length ELSE @]

-----------------------------------------------------------------------------
(* Helper functions called on their own *)

\* size_t of SizeBits bits: std::numeric_limits<size_t>::max()
SizeBits == 16
SizeMax  == 2^SizeBits - 1

\* variant that stops the loop of PowMax one multiplication early (C27 depends
\* on the loop going on up to max / base)
PowMaxContinues_early(u, base) == u * base < SizeMax \div base

\* "while(u < std::numeric_limits<size_t>::max() / base)"
PowMaxContinues(u, base) == u < SizeMax \div base

\* PowMax<base>() from u on: the value, and whether a product went past the
\* largest size_t (the product is then taken modulo 2^SizeBits)
RECURSIVE PowMaxFrom(_, _, _)
PowMaxFrom(base, u, overflowed) ==
    IF PowMaxContinues(u, base)
    THEN PowMaxFrom(base, (u * base) % (SizeMax + 1), overflowed \/ u * base > SizeMax)
    ELSE [value |-> u, overflowed |-> overflowed]
PowMax(base) == PowMaxFrom(base, base, FALSE)

\* IsPow<base>(u)
IsPow(base, u) == u > 0 /\ PowMax(base).value % u = 0

\* a null parent pointer
nullParent == [scheme |-> "nullptr"]

\* TreeNode::IsBluesteinChirpSetup on the child number index of parent: the
\* outcomes the call can have. The first test lets a node of the fused
\* multi-kernel type through whatever its parent is, and "switch(parent->typeBlue)"
\* then reads through the parent pointer: with a null parent the behaviour is
\* undefined, any answer or a crash
IsBluesteinChirpSetup(node, parent) ==
    IF /\ node.typeBlue # "BT_MULTI_KERNEL_FUSED"
       /\ (parent = nullParent \/ parent.scheme # "CS_BLUESTEIN")
    THEN {"false"}
    ELSE IF parent = nullParent THEN {"true", "false", "crash"}
    ELSE CASE parent.typeBlue = "BT_NONE" -> {"false"}
           [] parent.typeBlue = "BT_SINGLE_KERNEL" ->
                  {IF node.index = 1 \/ node.index = 2 THEN "true" ELSE "false"}
           [] parent.typeBlue = "BT_MULTI_KERNEL" ->
                  {IF node.index = 1 THEN "true" ELSE "false"}
           [] parent.typeBlue = "BT_MULTI_KERNEL_FUSED" ->
                  {IF node.fuseBlue = "BFT_FWD_CHIRP" THEN "true" ELSE "false"}

notReturned == [done |-> FALSE]
Returned(v) == [done |-> TRUE, value |-> v]

\* catalogs for one column length: with or without a block column kernel, with
\* or without a regular kernel, the kernel doing tpb transforms per block
FnColumnLength == 16
FnPools ==
    {[sbcc |-> s, normal |-> n, tpb |-> t, sbcr |-> {}] :
        s \in {{}, {FnColumnLength}}, n \in {{}, {FnColumnLength}}, t \in {2, 4, 7, 8, 16}}

Calls_SBCC_dim_available ==
    {[fn |-> "SBCC_dim_available", pool |-> p, length |-> <<l, FnColumnLength, FnColumnLength>>,
      sbcc_dim |-> d, precision |-> pr] :
        p \in FnPools, l \in {3, 4, 8, 16}, d \in {2, 3}, pr \in Precisions}

FnIdle ==
    /\ pc = "fn" /\ req = leafIdle /\ root = leafIdle /\ pool = NoPool /\ oracle = leafIdle
    /\ leaf = leafIdle /\ keys = <<>> /\ gp = 0 /\ lpc = "off"
    /\ RepoIdle
FnUnchanged == UNCHANGED <<pc, req, root, pool, oracle, leaf, keys, gp, lpc, call, planNodes, repo, log>>

\* a node on which SetTransposeOutputLength is called: what the function reads
\* and writes
PlainTranspose == {"CS_KERNEL_TRANSPOSE"}
TransposeXY_Z  == {"CS_KERNEL_TRANSPOSE_XY_Z", "CS_KERNEL_STOCKHAM_TRANSPOSE_XY_Z"}
TransposeZ_XY  == {"CS_KERNEL_TRANSPOSE_Z_XY", "CS_KERNEL_STOCKHAM_TRANSPOSE_Z_XY"}
TransposeSchemes == PlainTranspose \cup TransposeXY_Z \cup TransposeZ_XY
FnSchemes == TransposeSchemes \cup {"CS_KERNEL_STOCKHAM"}

\* up to MaxChain transposes in a row, each reading the outputLength of the one
\* before it, as the transposes of the 2-D and 3-D builders do
MaxChain == 3
SchemeChains == UNION {[1..n -> FnSchemes] : n \in 1..MaxChain}
\* lengths of 2, 3 and 4 dimensions
FnLengths ==
    {<<a, b>> : a \in {2, 3}, b \in {2, 3}}
    \cup {<<a, b, c>> : a \in {2, 3, 5}, b \in {2, 3, 5}, c \in {2, 3, 5}}
    \cup {<<a, b, c, 7>> : a \in {2, 3, 5}, b \in {2, 3, 5}, c \in {2, 3, 5}}
\* the dimensions a scheme indexes
DimsOf(scheme) == IF scheme \in TransposeXY_Z \cup TransposeZ_XY THEN 3 ELSE 2

\* calls on nodes with as many dimensions as their scheme indexes; outputLength
\* is what the node holds before the call
Calls_SetTransposeOutputLength ==
    {c \in [fn : {"SetTransposeOutputLength"}, schemes : SchemeChains,
            length : FnLengths, outputLength : {<<>>, <<1, 1>>}] :
        \A i \in DOMAIN c.schemes : Len(c.length) >= DimsOf(c.schemes[i])}

notApplied == [done |-> FALSE, threw |-> FALSE, nodes |-> <<>>]

\* built nodes whose AssignParams_internal wires a callback node to the root:
\* inverse 1-D even-length nodes and 3-D nodes with the column-block-to-real
\* solution, each with its own layout
WiredNodes ==
    {BuildTree_RealTransEven(
         [Request("CS_REAL_TRANSFORM_EVEN", 1, 1, <<l>>, 0, gi, 0, go, 2)
             EXCEPT !.try_fuse_pre_post_processing = f], sgl) :
        l \in {4, 4096}, gi \in Pads, go \in Pads, f \in BOOLEAN, sgl \in BOOLEAN}
    \cup {n \in {BuildTree_Real3DEven(r, [NoPool EXCEPT !.sbcr = AllSBCR],
                                      [single |-> TRUE, fuseDefault |-> FALSE, fusable |-> {}]) :
                     r \in {q \in Requests3D : q.direction = 1 /\ q.batch = 1}} :
              n.solution = "SBCR"}
\* the ancestors of such a node, nearest first, up to MaxDepth of them; only
\* their output layout is read
MaxDepth == 3
AncestorLayouts == {[outStride |-> <<1, 7>>, oDist |-> d] : d \in {21, 35, 63}}
ParentChains == UNION {[1..d -> AncestorLayouts] : d \in 0..MaxDepth}
Calls_AssignParams_internal ==
    [fn : {"AssignParams_internal"}, node : WiredNodes, parents : ParentChains]

\* strides of a buffer of the given lengths with rows padded by pad1 and
\* planes by pad2 elements, and the distance between batches, padded by gap
CollapseLayout(len, pad) ==
    LET s2 == len[1] + pad[1]
        s3 == s2 * len[2] + pad[2]
        st == <<1, s2, s3>>
    IN  [stride |-> SubSeq(st, 1, Len(len)), dist |-> st[Len(len)] * len[Len(len)] + pad[3]]
CollapsePads == {<<0, 0, 0>>, <<1, 0, 0>>, <<0, 1, 0>>, <<0, 0, 1>>}
CollapseLengths ==
    {<<a, b>> : a \in {2, 4}, b \in {2, 3}}
    \cup {<<a, b, c>> : a \in {2, 4}, b \in {2, 3}, c \in {2, 3}}
\* no outputLength, that of a half spectrum, one with a longer last dimension
CollapseOutputLengths(len) ==
    {<<>>, [len EXCEPT ![1] = (len[1] \div 2) + 1], [len EXCEPT ![Len(len)] = len[Len(len)] + 1]}
\* ascending lists of dimensions
AscendingDims(n) ==
    {d \in UNION {[1..k -> 1..n] : k \in 0..n} : \A x \in 1..(Len(d) - 1) : d[x] < d[x + 1]}
CollapseNode(len, olen, padIn, padOut, batch, dims, kids) ==
    LET lin  == CollapseLayout(len, padIn)
        lout == CollapseLayout(IF olen = <<>> THEN len ELSE olen, padOut)
    IN  [length |-> len, outputLength |-> olen,
         inStride |-> lin.stride, iDist |-> lin.dist,
         outStride |-> lout.stride, oDist |-> lout.dist,
         batch |-> batch, comments |-> <<>>, collapsibleDims |-> dims, childNodes |-> kids]
\* children: the two sides agree, they disagree, nothing is collapsible
CollapseKids ==
    {<<>>,
     <<CollapseNode(<<4, 3>>, <<>>, <<0, 0, 0>>, <<0, 0, 0>>, 2, <<1, 2>>, <<>>)>>,
     <<CollapseNode(<<4, 3>>, <<>>, <<0, 0, 0>>, <<1, 0, 0>>, 2, <<1, 2>>, <<>>),
       CollapseNode(<<2, 2>>, <<>>, <<1, 0, 0>>, <<1, 0, 0>>, 1, <<2>>, <<>>)>>}
CollapseNodes ==
    UNION {{CollapseNode(len, olen, pi, po, b, d, kids) :
               olen \in CollapseOutputLengths(len), d \in AscendingDims(Len(len)),
               pi \in CollapsePads, po \in CollapsePads, b \in Batches, kids \in CollapseKids} :
           len \in CollapseLengths}
Calls_CollapseContiguousDims == [fn : {"CollapseContiguousDims"}, node : CollapseNodes]

\* the bases of the instantiations, and for each the arguments: the small
\* numbers, the powers of the base and their neighbours, the largest size_t
PowBases == {2, 3, 5, 7, 11, 13}
MaxSmall == 300
RECURSIVE PowersFrom(_, _)
PowersFrom(base, p) == IF p > SizeMax THEN {} ELSE {p} \cup PowersFrom(base, p * base)
PowersOf(base) == PowersFrom(base, 1)
PowArguments(base) ==
    (0..MaxSmall) \cup {SizeMax}
    \cup UNION {{p - 1, p, p + 1, 2 * p} \cap (0..SizeMax) : p \in PowersOf(base)}
\* nodes with and without a parent; a parent has three children
BluesteinTypes == {"BT_NONE", "BT_SINGLE_KERNEL", "BT_MULTI_KERNEL", "BT_MULTI_KERNEL_FUSED"}
BluesteinFuseTypes == {"BFT_NONE", "BFT_FWD_CHIRP", "BFT_FWD_CHIRP_MUL"}
BluesteinParents ==
    {nullParent} \cup [scheme : {"CS_BLUESTEIN", "CS_L1D_CC"}, typeBlue : BluesteinTypes]
Calls_IsBluesteinChirpSetup ==
    {c \in [fn : {"IsBluesteinChirpSetup"},
            node : [typeBlue : BluesteinTypes, fuseBlue : BluesteinFuseTypes, index : 0..3],
            parent : BluesteinParents] :
        (c.node.index = 0) <=> (c.parent = nullParent)}

Calls_IsPow ==
    UNION {[fn : {"IsPow"}, base : {b}, u : PowArguments(b)] : b \in PowBases}

InitFn ==
    /\ FnIdle
    /\ \/ call \in Calls_SBCC_dim_available /\ ret = notReturned
       \/ call \in Calls_SetTransposeOutputLength /\ ret = notApplied
       \/ call \in Calls_AssignParams_internal /\ ret = notReturned
       \/ call \in Calls_CollapseContiguousDims /\ ret = notReturned
       \/ call \in Calls_IsPow /\ ret = notReturned
       \/ call \in Calls_IsBluesteinChirpSetup /\ ret = notReturned

\* a call of SBCC_dim_available(length, sbcc_dim, precision)
Call_SBCC_dim_available ==
    /\ call.fn = "SBCC_dim_available" /\ ~ret.done
    /\ ret' = Returned(SBCC_dim_available(call.pool, call.length, call.sbcc_dim, call.precision))
    /\ FnUnchanged

\* a call of SetTransposeOutputLength on the next node of the chain: the
\* default case throws before anything is assigned
Call_SetTransposeOutputLength ==
    /\ call.fn = "SetTransposeOutputLength" /\ ~ret.done
    /\ LET k    == Len(ret.nodes) + 1
           node == [scheme       |-> call.schemes[k],
                    length       |-> IF k = 1 THEN call.length
                                     ELSE ret.nodes[k - 1].outputLength,
                    outputLength |-> call.outputLength]
           out  == TransposeOutputLength(node.scheme, node.length)
       IN  ret' = IF out = <<>>
                  THEN [done |-> TRUE, threw |-> TRUE, nodes |-> Append(ret.nodes, node)]
                  ELSE [done  |-> k = Len(call.schemes), threw |-> FALSE,
                        nodes |-> Append(ret.nodes, [node EXCEPT !.outputLength = out])]
    /\ FnUnchanged

\* AssignParams_internal of an inverse even-length node or of a 3-D node with
\* the column-block-to-real solution, below the given ancestors
Call_AssignParams_internal ==
    /\ call.fn = "AssignParams_internal" /\ ~ret.done
    /\ LET rootPlan == RootPlan(<<call.node>> \o call.parents)
       IN  ret' = Returned(IF call.node.scheme = "CS_REAL_TRANSFORM_EVEN"
                           THEN AssignParams_RealTransEven(call.node, rootPlan)
                           ELSE AssignParams_Real3D_SBCR(call.node, rootPlan))
    /\ FnUnchanged

\* a call of CollapseContiguousDims on a node
Call_CollapseContiguousDims ==
    /\ call.fn = "CollapseContiguousDims" /\ ~ret.done
    /\ ret' = Returned(CollapseContiguousDims(call.node))
    /\ FnUnchanged

\* a call of IsPow<base>(u), with the constant PowMax<base>() it uses
Call_IsPow ==
    /\ call.fn = "IsPow" /\ ~ret.done
    /\ ret' = Returned([ispow |-> IsPow(call.base, call.u), max |-> PowMax(call.base)])
    /\ FnUnchanged

\* a call of IsBluesteinChirpSetup on a node
Call_IsBluesteinChirpSetup ==
    /\ call.fn = "IsBluesteinChirpSetup" /\ ~ret.done
    /\ \E outcome \in IsBluesteinChirpSetup(call.node, call.parent) : ret' = Returned(outcome)
    /\ FnUnchanged

NextFn ==
    \/ Call_SBCC_dim_available
    \/ Call_SetTransposeOutputLength
    \/ Call_AssignParams_internal
    \/ Call_CollapseContiguousDims
    \/ Call_IsPow
    \/ Call_IsBluesteinChirpSetup

SpecFn == InitFn /\ [][NextFn]_vars

-----------------------------------------------------------------------------
(* Leases on the tables of the twiddle / chirp cache *)

\* the number of nodes alive at the same time
NumNodes == 2
NodeIds  == 1..NumNodes

NULL == [kind |-> "null"]
Handle(kind, key, gen) == [kind |-> kind, key |-> key, gen |-> gen]

\* the cache keys the nodes of the model ask for
TableLength == 8
TwdKey      == <<TableLength, 0>>
LargeTwdKey == <<TableLength, TableLength>>
ChirpKey    == <<TableLength>>
Twd2DKey    == <<TableLength, TableLength, 2>>
RepoKeys    == {<<"1D", TwdKey>>, <<"1D", LargeTwdKey>>, <<"chirp", ChirpKey>>, <<"2D", Twd2DKey>>}

\* Repo: the live tables with their reference counts, and how often each key
\* has been computed
emptyRepo == [live |-> {}, computed |-> [k \in RepoKeys |-> 0]]
LiveTable(r, kind, key) == {t \in r.live : t.kind = kind /\ t.key = key}

\* Repo::GetTwiddles1D / GetTwiddles2D / GetChirp: a live table is shared, a
\* missing one is computed; the caller gets a lease on it
Repo_Get(r, kind, key) ==
    IF LiveTable(r, kind, key) # {}
    THEN LET t == CHOOSE x \in LiveTable(r, kind, key) : TRUE
         IN  [repo   |-> [r EXCEPT !.live = (@ \ {t}) \cup {[t EXCEPT !.refs = @ + 1]}],
              handle |-> Handle(kind, key, t.gen)]
    ELSE LET gen == r.computed[<<kind, key>>] + 1
         IN  [repo   |-> [live     |-> r.live \cup {[kind |-> kind, key |-> key,
                                                     gen |-> gen, refs |-> 1]},
                          computed |-> [r.computed EXCEPT ![<<kind, key>>] = gen]],
              handle |-> Handle(kind, key, gen)]

\* Repo::ReleaseTwiddle1D / ReleaseTwiddle2D / ReleaseChirp: the count of the
\* table goes down by one and the table is freed at zero; a handle the cache
\* of that kind does not know is ignored
Repo_Release(r, kind, h) ==
    LET ts == {t \in r.live : h # NULL /\ t.kind = kind /\ h.kind = kind
                              /\ t.key = h.key /\ t.gen = h.gen}
    IN  IF ts = {} THEN r
        ELSE LET t == CHOOSE x \in ts : TRUE
             IN  [r EXCEPT !.live = (@ \ {t})
                                    \cup (IF t.refs > 1 THEN {[t EXCEPT !.refs = @ - 1]} ELSE {})]

ReleaseKind(op) ==
    CASE op = "ReleaseTwiddle1D" -> "1D"
      [] op = "ReleaseTwiddle2D" -> "2D"
      [] op = "ReleaseChirp"     -> "chirp"

\* a node as far as its leases go
LeaseNode(scheme, need_chirp, need_twd_table, large) ==
    [scheme |-> scheme, need_chirp |-> need_chirp, need_twd_table |-> need_twd_table,
     large1D |-> IF large THEN TableLength ELSE 0,
     twiddles |-> NULL, twiddles_large |-> NULL, chirp |-> NULL,
     state |-> "constructed"]

LeaseNodes ==
    {LeaseNode("CS_KERNEL_STOCKHAM", FALSE, TRUE, FALSE),
     LeaseNode("CS_KERNEL_STOCKHAM", FALSE, TRUE, TRUE),
     LeaseNode("CS_KERNEL_STOCKHAM", TRUE, TRUE, FALSE),
     LeaseNode("CS_KERNEL_2D_SINGLE", FALSE, TRUE, FALSE),
     LeaseNode("CS_KERNEL_TRANSPOSE", FALSE, FALSE, FALSE)}

LogEntry(op, field, handle) == [op |-> op, field |-> field, handle |-> handle]

InitRepo ==
    /\ pc = "repo" /\ req = leafIdle /\ root = leafIdle /\ pool = NoPool /\ oracle = leafIdle
    /\ leaf = leafIdle /\ keys = <<>> /\ gp = 0 /\ lpc = "off"
    /\ call = noCall /\ ret = noCall
    /\ planNodes \in [NodeIds -> LeaseNodes]
    /\ repo = emptyRepo
    /\ log = [id \in NodeIds |-> <<>>]

RepoFrame == UNCHANGED <<pc, req, root, pool, oracle, leaf, keys, gp, lpc, call, ret>>

\* node id makes a Repo call that hands it a lease, kept in field
Acquire(id, op, kind, key, field, nextState) ==
    LET got == Repo_Get(repo, kind, key)
    IN  /\ repo' = got.repo
        /\ planNodes' = [planNodes EXCEPT ![id] =
                            [[@ EXCEPT !.state = nextState] EXCEPT ![field] = got.handle]]
        /\ log' = [log EXCEPT ![id] = Append(@, LogEntry(op, field, got.handle))]

Skip(id, nextState) ==
    /\ planNodes' = [planNodes EXCEPT ![id].state = nextState]
    /\ UNCHANGED <<repo, log>>

\* LeafNode::CreateDeviceResources, "if(need_chirp)"
CreateDeviceResources_chirp(id) ==
    /\ planNodes[id].state = "constructed"
    /\ planNodes[id].scheme # "CS_KERNEL_2D_SINGLE"
    /\ IF planNodes[id].need_chirp
       THEN Acquire(id, "GetChirp", "chirp", ChirpKey, "chirp", "need_twd_table")
       ELSE Skip(id, "need_twd_table")
    /\ RepoFrame

\* LeafNode::CreateDeviceResources, "if(need_twd_table)"
CreateDeviceResources_twiddles(id) ==
    /\ planNodes[id].state = "need_twd_table"
    /\ IF planNodes[id].need_twd_table
       THEN Acquire(id, "GetTwiddles1D", "1D", TwdKey, "twiddles", "large1D")
       ELSE Skip(id, "large1D")
    /\ RepoFrame

\* the 2-D single kernel node asks for the 2-D table in place of the 1-D one
CreateDeviceResources_2D_SINGLE(id) ==
    /\ planNodes[id].state = "constructed"
    /\ planNodes[id].scheme = "CS_KERNEL_2D_SINGLE"
    /\ Acquire(id, "GetTwiddles2D", "2D", Twd2DKey, "twiddles", "large1D")
    /\ RepoFrame

\* LeafNode::CreateLargeTwdTable
CreateLargeTwdTable(id) ==
    /\ planNodes[id].state = "large1D"
    /\ IF planNodes[id].large1D # 0
       THEN Acquire(id, "GetTwiddles1D", "1D", LargeTwdKey, "twiddles_large", "resourced")
       ELSE Skip(id, "resourced")
    /\ RepoFrame

\* "if(scheme == CS_KERNEL_2D_SINGLE) ReleaseTwiddle2D else ReleaseTwiddle1D"
TwiddleReleaseOp_always1D(scheme) == "ReleaseTwiddle1D"
TwiddleReleaseOp(scheme) ==
    IF scheme = "CS_KERNEL_2D_SINGLE" THEN "ReleaseTwiddle2D" ELSE "ReleaseTwiddle1D"

\* the handle passed by "Repo::ReleaseTwiddle1D(twiddles_large)"; the variant
\* passes the handle of the other twiddle table
LargeHandleReleased_twiddles(n) == n.twiddles
LargeHandleReleased(n) == n.twiddles_large

\* one "if(handle) { release; handle = nullptr; }" block of ~TreeNode
ReleaseBlock(id, op, field, handle, nextState) ==
    IF planNodes[id][field] # NULL
    THEN /\ repo' = Repo_Release(repo, ReleaseKind(op), handle)
         /\ planNodes' = [planNodes EXCEPT ![id] =
                             [[@ EXCEPT !.state = nextState] EXCEPT ![field] = NULL]]
         /\ log' = [log EXCEPT ![id] = Append(@, LogEntry(op, field, handle))]
    ELSE Skip(id, nextState)

\* TreeNode::~TreeNode, "if(twiddles)": a node is destroyed before or after it
\* got its device resources
Destroy_twiddles(id) ==
    /\ planNodes[id].state \in {"constructed", "resourced"}
    /\ ReleaseBlock(id, TwiddleReleaseOp(planNodes[id].scheme), "twiddles",
                    planNodes[id].twiddles, "~twiddles_large")
    /\ RepoFrame

\* TreeNode::~TreeNode, "if(twiddles_large)"
Destroy_twiddles_large(id) ==
    /\ planNodes[id].state = "~twiddles_large"
    /\ ReleaseBlock(id, "ReleaseTwiddle1D", "twiddles_large",
                    LargeHandleReleased(planNodes[id]), "~chirp")
    /\ RepoFrame

\* TreeNode::~TreeNode, "if(chirp)"
Destroy_chirp(id) ==
    /\ planNodes[id].state = "~chirp"
    /\ ReleaseBlock(id, "ReleaseChirp", "chirp", planNodes[id].chirp, "destroyed")
    /\ RepoFrame

NextRepo ==
    \E id \in NodeIds :
        \/ CreateDeviceResources_chirp(id)
        \/ CreateDeviceResources_twiddles(id)
        \/ CreateDeviceResources_2D_SINGLE(id)
        \/ CreateLargeTwdTable(id)
        \/ Destroy_twiddles(id)
        \/ Destroy_twiddles_large(id)
        \/ Destroy_chirp(id)

SpecRepo == InitRepo /\ [][NextRepo]_vars

-----------------------------------------------------------------------------
(* One leaf's leases over its lifetime : CreateDeviceResources, which may be *)
(* called again on a leaf that already has its resources, and ~TreeNode      *)

\* the calls of CreateDeviceResources made in one run
MaxCalls == 3

\* the leaves LeafNode::CreateDeviceResources serves
LeafLeaseNodes == {n \in LeaseNodes : n.scheme # "CS_KERNEL_2D_SINGLE"}

\* the cache, the leaf and the leaf's Repo calls, threaded through a call
LeaseState(id) == [repo |-> repo, node |-> planNodes[id], log |-> log[id]]

\* "std::tie(field, size) = Repo::Get...": the handle returned is assigned to
\* the field, whatever the field held
GetInto(s, op, kind, key, field) ==
    LET got == Repo_Get(s.repo, kind, key)
    IN  [repo |-> got.repo,
         node |-> [s.node EXCEPT ![field] = got.handle],
         log  |-> Append(s.log, LogEntry(op, field, got.handle))]

\* "if(field) { Repo::Release...(field); field = nullptr; }"
ReleaseFrom(s, op, field) ==
    IF s.node[field] # NULL
    THEN [repo |-> Repo_Release(s.repo, ReleaseKind(op), s.node[field]),
          node |-> [s.node EXCEPT ![field] = NULL],
          log  |-> Append(s.log, LogEntry(op, field, s.node[field]))]
    ELSE s

\* LeafNode::CreateLargeTwdTable
LargeTwdTableCreated(s) ==
    IF s.node.large1D # 0
    THEN GetInto(s, "GetTwiddles1D", "1D", LargeTwdKey, "twiddles_large")
    ELSE s

\* LeafNode::CreateDeviceResources
DeviceResourcesCreated(s) ==
    LET s1 == IF s.node.need_chirp
              THEN GetInto(s, "GetChirp", "chirp", ChirpKey, "chirp") ELSE s
        s2 == IF s1.node.need_twd_table
              THEN GetInto(s1, "GetTwiddles1D", "1D", TwdKey, "twiddles") ELSE s1
    IN  LargeTwdTableCreated(s2)

\* TreeNode::~TreeNode
TreeNodeDestroyed(s) ==
    LET s1 == ReleaseFrom(s, TwiddleReleaseOp(s.node.scheme), "twiddles")
        s2 == ReleaseFrom(s1, "ReleaseTwiddle1D", "twiddles_large")
    IN  ReleaseFrom(s2, "ReleaseChirp", "chirp")

InitLease ==
    /\ pc = "lease" /\ req = leafIdle /\ root = leafIdle /\ pool = NoPool /\ oracle = leafIdle
    /\ leaf = leafIdle /\ keys = <<>> /\ gp = 0 /\ lpc = "off"
    /\ call = noCall /\ ret = noCall
    /\ planNodes \in [NodeIds -> LeafLeaseNodes]
    /\ repo = emptyRepo
    /\ log = [id \in NodeIds |-> <<>>]

LeaseFrame == UNCHANGED <<pc, req, root, pool, oracle, leaf, keys, lpc, call, ret>>

LeaseStep(id, s, nextState) ==
    /\ repo' = s.repo
    /\ planNodes' = [planNodes EXCEPT ![id] = [s.node EXCEPT !.state = nextState]]
    /\ log' = [log EXCEPT ![id] = s.log]

\* a call of CreateDeviceResources on a live leaf, the first or a later one;
\* gp counts the calls
CreateDeviceResources(id) ==
    /\ pc = "lease" /\ gp < MaxCalls
    /\ planNodes[id].state \in {"constructed", "resourced"}
    /\ LeaseStep(id, DeviceResourcesCreated(LeaseState(id)), "resourced")
    /\ gp' = gp + 1
    /\ LeaseFrame

\* the leaf is destroyed, with or without its resources
Destroy_TreeNode(id) ==
    /\ pc = "lease"
    /\ planNodes[id].state \in {"constructed", "resourced"}
    /\ LeaseStep(id, TreeNodeDestroyed(LeaseState(id)), "destroyed")
    /\ gp' = gp
    /\ LeaseFrame

NextLease ==
    \E id \in NodeIds :
        \/ CreateDeviceResources(id)
        \/ Destroy_TreeNode(id)

SpecLease == InitLease /\ [][NextLease]_vars

-----------------------------------------------------------------------------
(* Properties of the built and propagated tree *)

\* the nodes that have children: the root and its composite children
Inner(r) == {r} \cup {r.childNodes[i] : i \in DOMAIN r.childNodes}
EvenNodes(r) == {n \in Inner(r) : n.scheme = "CS_REAL_TRANSFORM_EVEN"}
\* (producer, consumer) pairs adjacent in execution order
Pairs(n) == {<<n.childNodes[i], n.childNodes[i + 1]>> : i \in 1..(Len(n.childNodes) - 1)}
LastChild(n) == n.childNodes[Len(n.childNodes)]
IsCallback(n) == n.scheme = "CS_KERNEL_APPLY_CALLBACK"
Occurrences(s, v) == Cardinality({i \in DOMAIN s : s[i] = v})
IsPermutation(a, b) ==
    /\ Len(a) = Len(b)
    /\ \A i \in DOMAIN a : Occurrences(a, a[i]) = Occurrences(b, a[i])
Built == pc \in {"built", "assigned"}

\* a distance handed from producer to consumer: equal, halved where the
\* callback node hands reals to a kernel that counts complexes, doubled where
\* a kernel that counts complexes hands over to the callback node
DistMatch(p, c) ==
    \/ c.iDist = p.oDist
    \/ IsCallback(p) /\ c.iDist = p.oDist \div 2
    \/ IsCallback(c) /\ c.iDist = 2 * p.oDist

\* C1: after layout propagation, for every two children adjacent in execution
\* order the consumer's input distance is the producer's output distance, up
\* to the real<->complex halving or doubling, for every parent distance
\* including one larger than the contiguous size (the distance half of the claim).
C1_DistanceConsistency ==
    pc = "assigned" =>
        \A n \in Inner(root) : \A pr \in Pairs(n) : DistMatch(pr[1], pr[2])

\* a length handed from producer to consumer, up to the real/complex packing
PackedFrom(p) ==
    {GetOutputLength(p)}
    \cup (IF IsCallback(p) THEN {[GetOutputLength(p) EXCEPT ![1] = @ \div 2]} ELSE {})
LengthEqual(p, c) ==
    \/ c.length \in PackedFrom(p)
    \/ IsCallback(c) /\ c.length = [GetOutputLength(p) EXCEPT ![1] = 2 * @]
LengthPermuted(p, c) ==
    \/ \E l \in PackedFrom(p) : IsPermutation(c.length, l)
    \/ IsCallback(c) /\ c.length = [GetOutputLength(p) EXCEPT ![1] = 2 * @]

\* the children of the column-block-to-real solution fold three dimensions into
\* two: Z and Y hold the Hermitian element count, X half the real count
FoldedShape(n) ==
    /\ Prod(n.childNodes[1].length) = Prod(n.length)
    /\ Prod(n.childNodes[2].length) = Prod(n.length)
    /\ 2 * Prod(n.childNodes[3].length) = Prod(n.outputLength)
    /\ n.childNodes[4].length = n.outputLength

LastOutputConserved(n) ==
    n.childNodes # <<>> => Prod(GetOutputLength(LastChild(n))) = Prod(n.outputLength)

\* C2 as claimed: each child's length equals the outputLength (or length) of the
\* child before it, up to the real/complex packing, and the last child's output
\* element count is that of the node's outputLength.
C2_LengthsEqual ==
    Built =>
        \A n \in Inner(root) :
            /\ \A pr \in Pairs(n) : LengthEqual(pr[1], pr[2])
            /\ LastOutputConserved(n)

\* C2 as amended: each child's length is a permutation of the outputLength (or
\* length) of the child before it, up to the real/complex packing; the children
\* of the column-block-to-real solution hold the same element counts folded into
\* two dimensions; the last child's output element count is that of the node's
\* outputLength.
C2_ShapeConservation ==
    Built =>
        \A n \in Inner(root) :
            /\ IF n.solution = "SBCR" THEN FoldedShape(n)
               ELSE \A pr \in Pairs(n) : LengthPermuted(pr[1], pr[2])
            /\ LastOutputConserved(n)

C2_Witness ==
    /\ pc = "built" /\ root.solution = "INPLACE_SBCC" /\ root.direction = -1
    /\ root.childNodes[2].length # root.childNodes[1].outputLength
    /\ IsPermutation(root.childNodes[2].length, root.childNodes[1].outputLength)

\* c is the Hermitian half spectrum of the real length r: floor(r[1] / 2) + 1
\* entries along the fastest dimension, the other extents the same
IsHalfSpectrum(r, c) ==
    /\ Len(c) = Len(r)
    /\ 2 * (c[1] - 1) <= r[1] /\ r[1] < 2 * c[1]
    /\ \A i \in 2..Len(r) : c[i] = r[i]

\* C3: for every real-transform node of real fastest length L the complex side
\* has floor(L/2)+1 entries along the fastest dimension and the same other
\* extents: outputLength for a forward node, length otherwise; the fused
\* forward FFT child's outputLength is the same value.
C3_HalfSpectrum ==
    Built =>
        /\ IF root.direction = -1 THEN root.length = req.length
           ELSE root.outputLength = req.length
        /\ \A n \in {root} \cup EvenNodes(root) :
              /\ IF n.direction = -1 THEN IsHalfSpectrum(n.length, n.outputLength)
                 ELSE IsHalfSpectrum(n.outputLength, n.length)
              /\ \A i \in DOMAIN n.childNodes :
                    n.childNodes[i].ebtype = "Real2C_POST" =>
                        n.childNodes[i].outputLength = n.outputLength

C3_Witness ==
    /\ pc = "built" /\ root.scheme = "CS_REAL_TRANSFORM_USING_CMPLX"
    /\ req.length[1] = 5 /\ root.direction = 1 /\ root.length[1] = 3

\* the preconditions of the column-block-to-real solution, on the request
SBCR_Preconditions ==
    LET c == HalfSpectrum(req.length)
    IN  /\ req.direction = 1
        /\ req.arch \in {"gfx908", "gfx90a"}
        /\ {req.length[1] \div 2, req.length[2], req.length[3]} \subseteq pool.sbcr
        /\ req.placement = "notinplace"
        /\ req.inStride = <<1, c[1], c[1] * c[2]>>
        /\ req.outStride = <<1, req.length[1], req.length[1] * req.length[2]>>
\* column-block kernels are available for dimensions 1 and 2 of the built root
SBCC_Available == sbcc_inplace(pool, root)

\* C4 as claimed: whenever column-block kernels are available for dimensions 1
\* and 2 of a 3-D even-length node, the in-place column-block solution is selected.
C4_InplaceSBCCFirst ==
    (pc = "built" /\ root.scheme = "CS_REAL_3D_EVEN" /\ SBCC_Available)
        => root.solution = "INPLACE_SBCC"

\* C4 as amended: column-block-to-real comes first: it is selected whenever its
\* preconditions hold; otherwise in-place column-block whenever column-block
\* kernels are available for dimensions 1 and 2; otherwise the transpose pairs.
C4_SolutionPrecedence ==
    (Built /\ root.scheme = "CS_REAL_3D_EVEN") =>
        root.solution = IF SBCR_Preconditions THEN "SBCR"
                        ELSE IF SBCC_Available THEN "INPLACE_SBCC"
                        ELSE "TR_PAIRS"

C4_Witness ==
    /\ pc = "built" /\ root.scheme = "CS_REAL_3D_EVEN"
    /\ SBCR_Preconditions /\ SBCC_Available /\ root.solution = "SBCR"
    /\ Len(root.childNodes) = 4

\* C5: building an even-length real node whose direction is neither -1 nor 1
\* never returns normally with a node that has no children.
C5_InvalidDirectionFatal ==
    ~(/\ pc = "built" /\ root.scheme = "CS_REAL_TRANSFORM_EVEN"
      /\ root.direction \notin {-1, 1} /\ root.childNodes = <<>>)

\* the even-length child of an in-place column-block root and its FFT child
EvenChildOf(r) == IF r.direction = -1 THEN r.childNodes[1] ELSE LastChild(r)
FFTChildOf(e)  == CHOOSE c \in {e.childNodes[i] : i \in DOMAIN e.childNodes} :
                      c.scheme \in {"CS_KERNEL_STOCKHAM", "CS_L1D_CC"}

\* C8: in the in-place column-block solutions the pre/post-processing is fused
\* into the complex kernel exactly when half the real fastest length is at
\* most 2048 (forward and inverse alike) and the complex FFT child is a single kernel.
C8_FuseRule ==
    (pc = "built" /\ root.solution = "INPLACE_SBCC") =>
        LET fft == FFTChildOf(EvenChildOf(root))
        IN  (fft.ebtype # "NONE") <=>
                (req.length[1] \div 2 <= FuseLengthLimit /\ fft.isLeaf)

\* C9: in every built 1-D even-length node the pre/post-processing appears
\* exactly once: fused into the FFT child (2 children, no separate sibling) or
\* as one separate sibling (3 children, FFT child without embedded type), after
\* the FFT for forward and before it for inverse.
C9_PrePostOnce ==
    Built =>
        \A e \in EvenNodes(root) :
            e.direction \in {-1, 1} =>
                LET ch == e.childNodes
                    siblings == {i \in DOMAIN ch :
                                    ch[i].scheme \in {"CS_KERNEL_R_TO_CMPLX", "CS_KERNEL_CMPLX_TO_R"}}
                    embedded == {i \in DOMAIN ch : ch[i].ebtype # "NONE"}
                IN  IF e.direction = -1
                    THEN \/ /\ Len(ch) = 2 /\ siblings = {} /\ embedded = {2}
                            /\ ch[2].ebtype = "Real2C_POST"
                         \/ /\ Len(ch) = 3 /\ siblings = {3} /\ embedded = {}
                            /\ ch[3].scheme = "CS_KERNEL_R_TO_CMPLX"
                    ELSE \/ /\ Len(ch) = 2 /\ siblings = {} /\ embedded = {1}
                            /\ ch[1].ebtype = "C2Real_PRE"
                         \/ /\ Len(ch) = 3 /\ siblings = {1} /\ embedded = {}
                            /\ ch[1].scheme = "CS_KERNEL_CMPLX_TO_R"

C9_Witness ==
    /\ pc = "assigned" /\ root.scheme = "CS_REAL_TRANSFORM_EVEN" /\ root.direction = -1
    /\ Len(root.childNodes) = 2 /\ root.childNodes[2].ebtype = "Real2C_POST"

\* C10: every forward or inverse even-length decomposition has exactly one
\* apply-callback node among its direct children: the first child of a forward
\* node, the last child of an inverse node, the fourth and last child of the
\* column-block-to-real solution; its length is the real length.
C10_CallbackAtRealBoundary ==
    Built =>
        \A n \in EvenNodes(root) \cup {m \in {root} : m.solution = "SBCR"} :
            n.direction \in {-1, 1} =>
                LET ch == n.childNodes
                    callbacks == {i \in DOMAIN ch : IsCallback(ch[i])}
                IN  /\ callbacks = IF n.direction = -1 THEN {1} ELSE {Len(ch)}
                    /\ n.solution = "SBCR" => Len(ch) = 4
                    /\ \A i \in callbacks :
                          /\ ch[i].length = realLengthOf(n)
                          /\ ch[i].length = req.length

C10_Witness ==
    /\ pc = "built" /\ root.solution = "SBCR"
    /\ Len(root.childNodes) = 4 /\ IsCallback(root.childNodes[4])
    /\ root.childNodes[4].length = req.length

-----------------------------------------------------------------------------
(* Properties of the leaf checks *)

SetupReturned == lpc = "ready"
SetupThrew    == lpc = "lds_error"

\* C6: whenever SetupGridParamAndFuncPtr returns normally, gp.lds_bytes (lds
\* times the complex element size, possibly halved) is at most
\* sharedMemPerBlock; when it exceeds the limit the call raises an error and
\* the request is left as computed, never truncated to the limit.
C6_LdsWithinDeviceLimit ==
    LET full == leaf.lds * (IF leaf.precision = "double" THEN 16 ELSE 8)
    IN  /\ (SetupReturned \/ SetupThrew) => gp \in {full, full \div 2}
        /\ SetupReturned => gp <= leaf.sharedMemPerBlock
        /\ SetupThrew => gp > leaf.sharedMemPerBlock

C6_Witness ==
    /\ SetupThrew /\ leaf.sharedMemPerBlock = 0 /\ gp > 0

\* the supplied front key disagrees with the leaf in one of the five properties
SuppliedKeyDisagrees ==
    /\ leaf.externalKernel
    /\ req.kernel_keys # <<>>
    /\ Head(req.kernel_keys) # EmptyFMKey
    /\ LET k == Head(req.kernel_keys)
       IN  \/ k.lengths[1] # leaf.length[1]
           \/ leaf.dimension = 2 /\ k.lengths[2] # leaf.length[2]
           \/ k.precision # leaf.precision
           \/ k.scheme # leaf.scheme
           \/ k.kernel_config.ebType # leaf.ebtype

\* C7: when the supplied key disagrees with the leaf, the check never passes
\* with it: specified_key stays unset, the kernel pool is as it was, the
\* failure is followed by default kernel selection, and the plan is aborted
\* exactly when the pool has no default kernel for the leaf.
C7_MismatchRecoverable ==
    SuppliedKeyDisagrees =>
        /\ lpc # "checked"
        /\ leaf.specified_key = <<>>
        /\ pool = req.pool
        /\ lpc = "aborted" => ~function_pool_has_function(pool, AutoGenKey(leaf))
        /\ lpc \in {"checked_default", "ready", "lds_error"}
              => function_pool_has_function(pool, AutoGenKey(leaf))

C7_Witness ==
    /\ SuppliedKeyDisagrees /\ lpc = "checked_default"
    /\ Head(req.kernel_keys).kernel_config.ebType # leaf.ebtype
    /\ keys = <<>> /\ leaf.specified_key = <<>>

-----------------------------------------------------------------------------
(* Properties of the strategy tag *)

\* a column kernel is available for dimension 1 of the requested 2-D node: a
\* block column kernel, or a regular kernel doing enough rows that fit
ColumnKernelAvailable2D ==
    LET h       == req.length[2]
        fastest == IF req.direction = -1 THEN req.length[1] ELSE req.length[1] \div 2 + 1
        minRows == IF req.precision = "single" THEN 8 ELSE 4
    IN  \/ h \in pool.sbcc
        \/ h \in pool.normal /\ pool.tpb >= minRows /\ pool.tpb <= fastest

ChildCountOf(scheme, solution) ==
    CASE scheme = "CS_REAL_2D_EVEN" /\ solution = "INPLACE_SBCC" -> 2
      [] scheme = "CS_REAL_2D_EVEN" /\ solution = "TR_PAIR"      -> 4
      [] scheme = "CS_REAL_3D_EVEN" /\ solution = "INPLACE_SBCC" -> 3
      [] scheme = "CS_REAL_3D_EVEN" /\ solution = "SBCR"         -> 4
      [] scheme = "CS_REAL_3D_EVEN" /\ solution = "TR_PAIRS"     -> 6
      [] OTHER -> -1

IsColumnKernel(n) == n.scheme \in {"CS_KERNEL_STOCKHAM_BLOCK_CC", "CS_KERNEL_STOCKHAM"}
IsEvenNode(n)     == n.scheme = "CS_REAL_TRANSFORM_EVEN"

\* C11: the solution tag of a 2-D or 3-D even-length node is the one decided
\* from the request when the tree is built and is the same after layout
\* propagation; the number of direct children is the one of the tag (2, 4; 3,
\* 4, 6); a 2-D in-place column-block node has the even-length child first when
\* forward and last when inverse; a 2-D node takes the in-place column-block
\* solution exactly when a column kernel is available for dimension 1.
C11_SolutionTag ==
    (Built /\ root.scheme \in {"CS_REAL_2D_EVEN", "CS_REAL_3D_EVEN"}) =>
        /\ Len(root.childNodes) = ChildCountOf(root.scheme, root.solution)
        /\ root.scheme = "CS_REAL_2D_EVEN" =>
              /\ root.solution = IF ColumnKernelAvailable2D THEN "INPLACE_SBCC" ELSE "TR_PAIR"
              /\ root.solution = "INPLACE_SBCC" =>
                    LET ch == root.childNodes
                    IN  IF root.direction = -1
                        THEN IsEvenNode(ch[1]) /\ IsColumnKernel(ch[2])
                        ELSE IsColumnKernel(ch[1]) /\ IsEvenNode(ch[2])
        /\ root.scheme = "CS_REAL_3D_EVEN" =>
              root.solution = IF SBCR_Preconditions THEN "SBCR"
                              ELSE IF SBCC_Available THEN "INPLACE_SBCC" ELSE "TR_PAIRS"

C11_Witness ==
    /\ pc = "assigned" /\ root.scheme = "CS_REAL_2D_EVEN" /\ root.direction = 1
    /\ root.solution = "INPLACE_SBCC" /\ Len(root.childNodes) = 2
    /\ req.length[2] \notin pool.sbcc

-----------------------------------------------------------------------------
(* Properties of the helper functions *)

\* C12: SBCC_dim_available(length, d, precision) returns true exactly when a
\* block column kernel exists for length[d] (whatever the rows), or none exists
\* but a regular kernel for length[d] exists whose transforms per block is at
\* least 8 (single) / 4 (double) and at most length[0]; it returns false when
\* neither kernel exists.
C12_SBCCDimAvailable ==
    (call.fn = "SBCC_dim_available" /\ ret.done) =>
        LET len     == call.length[call.sbcc_dim]
            block   == len \in call.pool.sbcc
            regular == len \in call.pool.normal
            minRows == IF call.precision = "single" THEN 8 ELSE 4
        IN  /\ ret.value <=> \/ block
                             \/ /\ ~block /\ regular
                                /\ call.pool.tpb >= minRows
                                /\ call.pool.tpb <= call.length[1]
            /\ (~block /\ ~regular) => ~ret.value

\* a block column kernel exists and the rows test would fail
C12_Witness ==
    /\ call.fn = "SBCC_dim_available" /\ ret.done /\ ret.value
    /\ call.length[call.sbcc_dim] \in call.pool.sbcc
    /\ call.pool.tpb < 4 /\ call.pool.tpb > call.length[1] - 2

-----------------------------------------------------------------------------
(* Forward and inverse decompositions of the same real shape *)

\* the request of the opposite direction for the same real lengths and batch
MirrorRequest(r) ==
    [r EXCEPT !.direction = -r.direction,
              !.inArrayType = IF r.direction = -1 THEN "hermitian_interleaved" ELSE "real",
              !.inStride = r.outStride, !.iDist = r.oDist,
              !.outStride = r.inStride, !.oDist = r.iDist]

\* the tree the builders make for request r
BuiltFor(r) ==
    CASE r.scheme = "CS_REAL_TRANSFORM_USING_CMPLX" -> BuildTree_RealTransCmplx(r, oracle.single)
      [] r.scheme = "CS_REAL_TRANSFORM_EVEN" -> BuildTree_RealTransEven(r, oracle.single)
      [] r.scheme = "CS_REAL_2D_EVEN" -> BuildTree_Real2DEven(r, pool, oracle)
      [] r.scheme = "CS_REAL_3D_EVEN" -> BuildTree_Real3DEven(r, pool, oracle)

\* C13: the decomposition built for the opposite direction from the same real
\* lengths has length equal to this one's outputLength and outputLength equal
\* to this one's length; the real side of both is the requested length, and
\* both trees and all their children carry the requested batch.
C13_ShapeRoundTrip ==
    (Built /\ req.direction \in {-1, 1}) =>
        LET m   == BuiltFor(MirrorRequest(req))
            fwd == IF root.direction = -1 THEN root ELSE m
            inv == IF root.direction = -1 THEN m ELSE root
        IN  /\ inv.length = fwd.outputLength
            /\ inv.outputLength = fwd.length
            /\ fwd.length = req.length
            /\ inv.outputLength = req.length
            /\ \A t \in {fwd, inv} :
                  /\ t.batch = req.batch
                  /\ \A i \in DOMAIN t.childNodes : t.childNodes[i].batch = req.batch

C13_Witness ==
    /\ pc = "built" /\ root.scheme = "CS_REAL_3D_EVEN" /\ root.direction = 1
    /\ req.batch = 2 /\ req.length[1] = 4096
    /\ BuiltFor(MirrorRequest(req)).outputLength = root.length
    /\ root.outputLength = req.length

-----------------------------------------------------------------------------
(* Properties of the fusion shims *)

\* a tree without its shim lists (children have none of their own)
WithoutShims(t) == [t EXCEPT !.fuseShims = <<>>]

\* the tree built, and then propagated, for request r with collaborators o
CompiledFor(r, o, assigned) ==
    IF r.scheme = "CS_REAL_2D_EVEN"
    THEN LET t == BuildTree_Real2DEven(r, pool, o)
         IN  IF assigned THEN AssignParams_Real2DEven(t) ELSE t
    ELSE LET t == BuildTree_Real3DEven(r, pool, o)
         IN  IF assigned THEN AssignParams_Real3DEven(t) ELSE t

\* C14: for the 2-D and 3-D strategies the children (schemes, lengths,
\* outputLengths) and, after propagation, their strides and distances are the
\* ones obtained when every shim feasibility check answers no; the root
\* differs from that tree by its fuseShims list only.
C14_ShimsLeaveTreeAlone ==
    (Built /\ root.scheme \in {"CS_REAL_2D_EVEN", "CS_REAL_3D_EVEN"}) =>
        LET plain == CompiledFor(req, [oracle EXCEPT !.fusable = {}], pc = "assigned")
        IN  /\ plain.fuseShims = <<>>
            /\ WithoutShims(root) = plain
            /\ \A i \in DOMAIN root.childNodes : root.childNodes[i].fuseShims = <<>>

C14_Witness ==
    /\ pc = "assigned" /\ root.solution = "TR_PAIRS" /\ root.direction = -1
    /\ Len(root.fuseShims) = 3 /\ Len(root.childNodes) = 6
    /\ WithoutShims(root) = CompiledFor(req, [oracle EXCEPT !.fusable = {}], TRUE)

\* C15: every shim recorded in a node's fuseShims lists two or three direct
\* children of that node, consecutive in its child sequence, in execution order.
C15_ShimsAreLocal ==
    Built =>
        \A n \in Inner(root) :
            \A k \in DOMAIN n.fuseShims :
                LET nodes == n.fuseShims[k].nodes
                IN  /\ Len(nodes) \in {2, 3}
                    /\ \A i \in DOMAIN nodes : nodes[i] \in DOMAIN n.childNodes
                    /\ \A i \in 1..(Len(nodes) - 1) : nodes[i + 1] = nodes[i] + 1

C15_Witness ==
    /\ pc = "built" /\ root.solution = "TR_PAIRS" /\ root.direction = 1
    /\ \E k \in DOMAIN root.fuseShims :
          /\ root.fuseShims[k].type = "FT_STOCKHAM_WITH_TRANS_XY_Z"
          /\ root.fuseShims[k].nodes = <<2, 3, 4>>

-----------------------------------------------------------------------------
(* Properties of the leases *)

LeaseFields == {"twiddles", "twiddles_large", "chirp"}
GetOps      == {"GetTwiddles1D", "GetTwiddles2D", "GetChirp"}
ReleaseOps  == {"ReleaseTwiddle1D", "ReleaseTwiddle2D", "ReleaseChirp"}

\* the positions in node id's log of the acquisitions / releases for a field
Gets(id, field)     == {i \in DOMAIN log[id] : log[id][i].field = field /\ log[id][i].op \in GetOps}
Releases(id, field) == {i \in DOMAIN log[id] : log[id][i].field = field /\ log[id][i].op \in ReleaseOps}

MatchingRelease(scheme, field) ==
    CASE field = "twiddles" /\ scheme = "CS_KERNEL_2D_SINGLE" -> "ReleaseTwiddle2D"
      [] field = "twiddles" /\ scheme # "CS_KERNEL_2D_SINGLE" -> "ReleaseTwiddle1D"
      [] field = "twiddles_large" -> "ReleaseTwiddle1D"
      [] field = "chirp" -> "ReleaseChirp"

\* C16: once a node is destroyed, each lease it acquired has been released
\* exactly once, through the release operation matching the field and scheme
\* and with the handle that was acquired; its three handles are null; no
\* release is ever issued with a null handle or for a field that held no lease.
C16_LeasesReleasedOnce ==
    \A id \in DOMAIN planNodes :
        /\ \A i \in DOMAIN log[id] : log[id][i].handle # NULL
        /\ planNodes[id].state = "destroyed" =>
              /\ \A f \in LeaseFields : planNodes[id][f] = NULL
              /\ \A f \in LeaseFields :
                    /\ Cardinality(Releases(id, f)) = Cardinality(Gets(id, f))
                    /\ \A i \in Releases(id, f) :
                          /\ log[id][i].op = MatchingRelease(planNodes[id].scheme, f)
                          /\ \E j \in Gets(id, f) : j < i /\ log[id][j].handle = log[id][i].handle

C16_Witness ==
    \E id \in DOMAIN planNodes :
        /\ planNodes[id].state = "destroyed" /\ planNodes[id].scheme = "CS_KERNEL_2D_SINGLE"
        /\ Len(log[id]) = 2 /\ log[id][2].op = "ReleaseTwiddle2D"
        /\ log[id][2].handle = log[id][1].handle

\* the leases the nodes hold on table t
LeasesOn(t) ==
    {<<id, f>> \in (DOMAIN planNodes) \X LeaseFields :
        planNodes[id][f] = Handle(t.kind, t.key, t.gen)}

\* C17: in every interleaving of the acquisitions and releases of the nodes, a
\* key has at most one live table, so nodes holding leases for the same key at
\* the same time share one computation; the reference count of a live table
\* is the number of leases held on it and is positive; every handle a node
\* holds is a live table (no table is freed while leased).
C17_CacheCoalescesAndCounts ==
    pc = "repo" =>
        /\ \A t1 \in repo.live : \A t2 \in repo.live :
              (t1.kind = t2.kind /\ t1.key = t2.key) => t1 = t2
        /\ \A t \in repo.live : t.refs = Cardinality(LeasesOn(t)) /\ t.refs > 0
        /\ \A id \in DOMAIN planNodes : \A f \in LeaseFields :
              planNodes[id][f] # NULL =>
                  \E t \in repo.live : planNodes[id][f] = Handle(t.kind, t.key, t.gen)

\* two nodes hold leases on one table
C17_Witness ==
    \E t \in repo.live : t.refs = 2 /\ Cardinality(LeasesOn(t)) = 2

\* the children that precede position k in execution order
Preceding(k) == 1..(k - 1)
\* the positions created before the child at position k
CreatedBefore(n, k) ==
    {n.buildOrder[i] : i \in {j \in DOMAIN n.buildOrder :
        \E m \in DOMAIN n.buildOrder : m > j /\ n.buildOrder[m] = k}}

\* C18 as stated: in every decomposition rule, forward and inverse, a child
\* is created and expanded only after every sibling that precedes it in
\* execution order has been created.
C18_LeftToRightBuild ==
    Built =>
        \A n \in Inner(root) : \A k \in DOMAIN n.childNodes :
            Preceding(k) \subseteq CreatedBefore(n, k)

\* C18: the children of every node are created in an order fixed by the rule:
\* every child is created exactly once; outside the 1-D even-length rule a
\* child is created only after every sibling that precedes it in execution
\* order; in the 1-D even-length rule, forward and inverse, the complex FFT
\* child is created and expanded first, before the callback or pre-processing
\* child that runs ahead of it, and the other children follow in execution
\* order.
C18_FixedBuildOrder ==
    Built =>
        \A n \in Inner(root) :
            /\ IsPermutation(n.buildOrder, InOrder(Len(n.childNodes)))
            /\ ~IsEvenNode(n) => n.buildOrder = InOrder(Len(n.childNodes))
            /\ (IsEvenNode(n) /\ n.childNodes # <<>>) =>
                  /\ n.childNodes[n.buildOrder[1]] = FFTChildOf(n)
                  /\ \A i \in 2..Len(n.buildOrder) : \A j \in 2..Len(n.buildOrder) :
                        i < j => n.buildOrder[i] < n.buildOrder[j]

\* an inverse even-length node with a separate pre-processing child, which
\* runs first and is created after the complex FFT child
C18_Witness ==
    /\ Built
    /\ \E n \in EvenNodes(root) :
          /\ n.direction = 1 /\ Len(n.childNodes) = 3
          /\ n.childNodes[1].scheme = "CS_KERNEL_CMPLX_TO_R"
          /\ n.buildOrder = <<2, 1, 3>>

------------------------------------------------------------------------------
(* SetTransposeOutputLength *)

\* the nodes of the chain on which the call returned
Transposed == {i \in DOMAIN ret.nodes : ret.nodes[i].scheme \in TransposeSchemes}
\* applications i..j of the chain are all of schemes in S
RunOf(S, i, j) == \A k \in i..j : k \in DOMAIN ret.nodes /\ ret.nodes[k].scheme \in S

\* C19: SetTransposeOutputLength makes outputLength a permutation of length:
\* the plain transpose exchanges entries 0 and 1, XY_Z moves entry 2 to the
\* front and Z_XY moves entry 0 to the back (3-cycles of entries 0,1,2 in
\* opposite directions), every other entry stays; two plain transposes, XY_Z
\* then Z_XY, Z_XY then XY_Z, and three XY_Z or three Z_XY in a row restore the
\* length; on a node that is no transpose the call throws and outputLength
\* keeps the value it had.
C19_TransposePermutes ==
    call.fn = "SetTransposeOutputLength" =>
        /\ \A i \in Transposed :
              LET l == ret.nodes[i].length
                  o == ret.nodes[i].outputLength
                  d == DimsOf(ret.nodes[i].scheme)
              IN  /\ IsPermutation(o, l)
                  /\ \A e \in DOMAIN l : e > d => o[e] = l[e]
                  /\ ret.nodes[i].scheme \in PlainTranspose => o[1] = l[2] /\ o[2] = l[1]
                  /\ ret.nodes[i].scheme \in TransposeXY_Z =>
                        o[1] = l[3] /\ o[2] = l[1] /\ o[3] = l[2]
                  /\ ret.nodes[i].scheme \in TransposeZ_XY =>
                        o[1] = l[2] /\ o[2] = l[3] /\ o[3] = l[1]
        /\ \A i \in DOMAIN ret.nodes :
              /\ RunOf(PlainTranspose, i, i + 1) =>
                    ret.nodes[i + 1].outputLength = ret.nodes[i].length
              /\ (RunOf(TransposeXY_Z, i, i) /\ RunOf(TransposeZ_XY, i + 1, i + 1)) =>
                    ret.nodes[i + 1].outputLength = ret.nodes[i].length
              /\ (RunOf(TransposeZ_XY, i, i) /\ RunOf(TransposeXY_Z, i + 1, i + 1)) =>
                    ret.nodes[i + 1].outputLength = ret.nodes[i].length
              /\ (RunOf(TransposeXY_Z, i, i + 2) \/ RunOf(TransposeZ_XY, i, i + 2)) =>
                    ret.nodes[i + 2].outputLength = ret.nodes[i].length
        /\ \A i \in DOMAIN ret.nodes :
              ret.nodes[i].scheme \notin TransposeSchemes =>
                  /\ ret.threw /\ ret.done /\ i = Len(ret.nodes)
                  /\ ret.nodes[i].outputLength = call.outputLength
        /\ ret.threw => ret.nodes[Len(ret.nodes)].scheme \notin TransposeSchemes

\* three Z_XY transposes of a 4-dimensional length with three different
\* entries have run: the second output differs from the length, the third is it
C19_Witness ==
    /\ call.fn = "SetTransposeOutputLength" /\ ret.done /\ ~ret.threw
    /\ Len(ret.nodes) = 3 /\ RunOf(TransposeZ_XY, 1, 3)
    /\ call.length = <<2, 3, 5, 7>>
    /\ ret.nodes[2].outputLength = <<5, 2, 3, 7>>
    /\ ret.nodes[3].outputLength = call.length

------------------------------------------------------------------------------
(* The embed-in-complex decomposition *)

IsEmbedNode(n) == n.scheme = "CS_REAL_TRANSFORM_USING_CMPLX"
\* strides of a packed array of the given lengths, fastest dimension first
PackedStrides(len) == [i \in DOMAIN len |-> Prod(SubSeq(len, 1, i - 1))]

\* C20: an embed-in-complex node has exactly three children: the head copy
\* (real to complex when forward, Hermitian to complex when inverse), the
\* complex transform, the tail copy (complex to Hermitian when forward, complex
\* to real when inverse); the complex transform has the full real lengths; after
\* layout propagation it reads and writes the same packed layout (stride 1 in
\* the fastest dimension, stride[i] the product of the real lengths below i,
\* distance the product of all real lengths), the head copy reads with the
\* parent's input layout and the tail copy writes with the parent's output
\* layout.
C20_EmbedInComplex ==
    (Built /\ IsEmbedNode(root)) =>
        LET head == root.childNodes[1]
            fft  == root.childNodes[2]
            tail == root.childNodes[3]
            real == realLengthOf(root)
        IN  /\ Len(root.childNodes) = 3
            /\ root.direction = -1 =>
                  /\ head.scheme = "CS_KERNEL_COPY_R_TO_CMPLX"
                  /\ tail.scheme = "CS_KERNEL_COPY_CMPLX_TO_HERM"
            /\ root.direction = 1 =>
                  /\ head.scheme = "CS_KERNEL_COPY_HERM_TO_CMPLX"
                  /\ tail.scheme = "CS_KERNEL_COPY_CMPLX_TO_R"
            /\ fft.scheme \in {"CS_KERNEL_STOCKHAM", "CS_L1D_CC"}
            /\ real = req.length
            /\ fft.length = real
            /\ pc = "assigned" =>
                  /\ fft.inStride = PackedStrides(real) /\ fft.iDist = Prod(real)
                  /\ fft.outStride = fft.inStride /\ fft.oDist = fft.iDist
                  /\ head.inStride = root.inStride /\ head.iDist = root.iDist
                  /\ head.inStride = req.inStride /\ head.iDist = req.iDist
                  /\ tail.outStride = root.outStride /\ tail.oDist = root.oDist
                  /\ tail.outStride = req.outStride /\ tail.oDist = req.oDist

\* an inverse 2-dimensional embed-in-complex plan with padded rows on both
\* sides has its layouts: the Hermitian input row is shorter than the real row
\* the complex transform works on
C20_Witness ==
    /\ pc = "assigned" /\ IsEmbedNode(root) /\ root.direction = 1
    /\ Len(req.length) = 2
    /\ root.childNodes[1].length[1] < root.childNodes[2].length[1]
    /\ root.childNodes[2].inStride = <<1, req.length[1]>>
    /\ root.childNodes[2].iDist = req.length[1] * req.length[2]
    /\ root.inStride[2] > root.length[1]

------------------------------------------------------------------------------
(* Odd fastest lengths *)

\* C21: a real transform with an odd fastest length gets the embed-in-complex
\* rule; the evenness assert of the even-length builders never fails; every
\* node built by the 1-D, 2-D or 3-D even-length rule has an even fastest
\* length in real units.
C21_OddNeverEven ==
    /\ pc # "abort"
    /\ (pc \in {"request", "built"} /\ req.length[1] % 2 # 0) =>
          root.scheme = "CS_REAL_TRANSFORM_USING_CMPLX"
    /\ (pc = "request" /\ root.scheme \in EvenSchemes) => FastestIsEven(root)
    /\ pc = "built" =>
          \A n \in Inner(root) :
              n.scheme \in EvenSchemes => realLengthOf(n)[1] % 2 = 0

\* a 3-D real transform with an odd fastest length has been built by the
\* embed-in-complex rule
C21_Witness ==
    /\ pc = "built" /\ Len(req.length) = 3 /\ req.length[1] % 2 # 0
    /\ root.scheme = "CS_REAL_TRANSFORM_USING_CMPLX" /\ Len(root.childNodes) = 3

------------------------------------------------------------------------------
(* The column-block-to-real solution *)

\* C22: a 3-D even-length node has the column-block-to-real solution only if
\* the transform is inverse with an input that is not real, the device is
\* gfx908 or gfx90a, block column-to-real kernels exist for the three lengths
\* (half the real length for the fastest one), the placement is out-of-place
\* and the input and output strides are the packed unit strides; its children
\* are then three block column-to-real kernels along Z, Y and X followed by the
\* callback node, and none of them is a real/complex pre-processing node.
C22_SBCROnlyWhenAllowed ==
    (Built /\ root.scheme = "CS_REAL_3D_EVEN" /\ root.solution = "SBCR") =>
        LET ch == root.childNodes
            r  == req.length
        IN  /\ SBCR_Preconditions
            /\ req.inArrayType # "real"
            /\ Len(ch) = 4
            /\ \A i \in 1..3 : ch[i].scheme = "CS_KERNEL_STOCKHAM_BLOCK_CR"
            /\ ch[1].length[1] = r[3] /\ ch[2].length[1] = r[2] /\ ch[3].length[1] = r[1] \div 2
            /\ IsCallback(ch[4]) /\ ch[4].length = r
            /\ \A i \in DOMAIN ch : ch[i].scheme # "CS_KERNEL_CMPLX_TO_R" /\ ch[i].childNodes = <<>>

\* the column-block-to-real solution has been built for three different lengths
C22_Witness ==
    /\ pc = "built" /\ root.scheme = "CS_REAL_3D_EVEN" /\ root.solution = "SBCR"
    /\ req.length[2] # req.length[3] /\ req.length[1] \div 2 \notin {req.length[2], req.length[3]}
    /\ Len(root.childNodes) = 4 /\ root.childNodes[1].length[1] = req.length[3]

------------------------------------------------------------------------------
(* The callback node's layout *)

\* the node with the null parent above the node of the call
TopOf(c) == IF c.parents = <<>> THEN c.node ELSE c.parents[Len(c.parents)]

\* C23: after AssignParams_internal of an inverse even-length node or of a
\* 3-D column-block-to-real node, at any depth below the root, the callback
\* node (the last child) has input and output strides equal to the root's
\* output strides and input and output distances equal to the root's output
\* distance, whatever the output layout of the decomposing node itself.
C23_CallbackWiredToRoot ==
    (call.fn = "AssignParams_internal" /\ ret.done) =>
        LET top == TopOf(call)
            cb  == LastChild(ret.value)
        IN  /\ IsCallback(cb)
            /\ cb.inStride = top.outStride /\ cb.outStride = top.outStride
            /\ cb.iDist = top.oDist /\ cb.oDist = top.oDist

\* an inverse even-length node two levels below the root, with an output
\* layout of its own, has its callback node wired to the root
C23_Witness ==
    /\ call.fn = "AssignParams_internal" /\ ret.done
    /\ call.node.scheme = "CS_REAL_TRANSFORM_EVEN" /\ Len(call.parents) = 2
    /\ call.node.oDist # TopOf(call).oDist /\ call.node.outStride # TopOf(call).outStride
    /\ call.parents[1].oDist # TopOf(call).oDist
    /\ LastChild(ret.value).oDist = TopOf(call).oDist

------------------------------------------------------------------------------
(* CollapseContiguousDims *)

\* (before, after) for the node of the call and for each of its children
CollapsedPairs ==
    {<<call.node, ret.value>>}
    \cup {<<call.node.childNodes[i], ret.value.childNodes[i]>> : i \in DOMAIN call.node.childNodes}
\* v without the entries at the indices in R
Without(v, R) ==
    LET keep == {i \in DOMAIN v : i \notin R}
        nth(k) == CHOOSE i \in keep : Cardinality({j \in keep : j < i}) = k - 1
    IN  [k \in 1..Cardinality(keep) |-> v[nth(k)]]
ProdOver(v, R) == Prod(Without(v, DOMAIN v \ R))
Lowest(R) == CHOOSE i \in R : \A j \in R : i <= j
\* every dimension of R spans exactly up to the next higher one of R, the
\* highest up to dist
SpansUpTo(R, dist, length, stride) ==
    \A i \in R :
        LET above == {j \in R : j > i}
        IN  stride[i] * length[i] = IF above = {} THEN dist ELSE stride[Lowest(above)]
\* one side of a node went from (length, stride, dist) to (length2, stride2,
\* dist2) by the removal of the dimensions R
SideCollapsed(R, length, stride, dist, length2, stride2, dist2) ==
    /\ length2 = Without(length, R) /\ stride2 = Without(stride, R)
    /\ SpansUpTo(R, dist, length, stride)
    /\ dist2 = IF R = {} THEN dist ELSE stride[Lowest(R)]

\* C24: CollapseContiguousDims removes from a node (and from each child) a set
\* of dimensions that are all in CollapsibleDims, each with stride times extent
\* equal to the distance current when it is reached; batch times the product
\* of length, and of the output lengths, is unchanged, the removed extents
\* being multiplied into batch; length and inStride, and the output lengths
\* and outStride, keep equal sizes; the new iDist and oDist are the strides of
\* the lowest removed dimension.
C24_CollapseConserves ==
    (call.fn = "CollapseContiguousDims" /\ ret.done) =>
        \A pr \in CollapsedPairs :
            LET b == pr[1]
                a == pr[2]
            IN  /\ a.batch * Prod(a.length) = b.batch * Prod(b.length)
                /\ a.batch * Prod(GetOutputLength(a)) = b.batch * Prod(GetOutputLength(b))
                /\ Len(a.length) = Len(a.inStride)
                /\ Len(GetOutputLength(a)) = Len(a.outStride)
                /\ \E R \in SUBSET {b.collapsibleDims[k] : k \in DOMAIN b.collapsibleDims} :
                      /\ SideCollapsed(R, b.length, b.inStride, b.iDist,
                                       a.length, a.inStride, a.iDist)
                      /\ SideCollapsed(R, GetOutputLength(b), b.outStride, b.oDist,
                                       GetOutputLength(a), a.outStride, a.oDist)
                      /\ a.batch = b.batch * ProdOver(b.length, R)

\* the two highest of three dimensions have been folded into the batch of a
\* node with padded rows and a half-spectrum output
C24_Witness ==
    /\ call.fn = "CollapseContiguousDims" /\ ret.done
    /\ Len(call.node.length) = 3 /\ Len(ret.value.length) = 1
    /\ call.node.outputLength # <<>> /\ call.node.inStride[2] > call.node.length[1]
    /\ ret.value.batch = call.node.batch * call.node.length[2] * call.node.length[3]
    /\ ret.value.iDist = call.node.inStride[2] /\ ret.value.oDist = call.node.outStride[2]

\* the dimensions of dims, from the highest down, that span exactly up to the
\* next one (the highest up to dist)
RECURSIVE ContiguousTop(_, _, _, _)
ContiguousTop(dims, dist, length, stride) ==
    IF dims = {} THEN {}
    ELSE LET i == CHOOSE x \in dims : \A y \in dims : y <= x
         IN  IF stride[i] * length[i] = dist
             THEN {i} \cup ContiguousTop(dims \ {i}, stride[i], length, stride)
             ELSE {}
CollapsibleIn(n) ==
    ContiguousTop({n.collapsibleDims[k] : k \in DOMAIN n.collapsibleDims},
                  n.iDist, n.length, n.inStride)
CollapsibleOut(n) ==
    ContiguousTop({n.collapsibleDims[k] : k \in DOMAIN n.collapsibleDims},
                  n.oDist, GetOutputLength(n), n.outStride)
\* the fields CollapseContiguousDims may write
SameShape(b, a) ==
    /\ a.length = b.length /\ a.outputLength = b.outputLength
    /\ a.inStride = b.inStride /\ a.outStride = b.outStride
    /\ a.iDist = b.iDist /\ a.oDist = b.oDist
    /\ a.batch = b.batch /\ a.comments = b.comments

\* C25: when the dimensions collapsible on the input side differ from those on
\* the output side, or the two batch counts they give differ, or no dimension
\* is collapsible, CollapseContiguousDims leaves the node's length,
\* outputLength, inStride, outStride, iDist, oDist, batch and comments
\* unchanged; the children are processed all the same, each by this rule.
C25_CollapseNeedsAgreement ==
    (call.fn = "CollapseContiguousDims" /\ ret.done) =>
        /\ Len(ret.value.childNodes) = Len(call.node.childNodes)
        /\ \A pr \in CollapsedPairs :
              LET b == pr[1]
                  a == pr[2]
              IN  (\/ CollapsibleIn(b) # CollapsibleOut(b)
                   \/ ProdOver(b.length, CollapsibleIn(b))
                          # ProdOver(GetOutputLength(b), CollapsibleOut(b))
                   \/ CollapsibleIn(b) = {})
                  => SameShape(b, a)

\* a node whose sides would fold the same dimension into different batch
\* counts is left alone while its first child is collapsed
C25_Witness ==
    /\ call.fn = "CollapseContiguousDims" /\ ret.done
    /\ CollapsibleIn(call.node) = CollapsibleOut(call.node) /\ CollapsibleIn(call.node) # {}
    /\ ProdOver(call.node.length, CollapsibleIn(call.node))
           # ProdOver(GetOutputLength(call.node), CollapsibleOut(call.node))
    /\ SameShape(call.node, ret.value)
    /\ Len(call.node.childNodes) = 1
    /\ ~SameShape(call.node.childNodes[1], ret.value.childNodes[1])

------------------------------------------------------------------------------
(* Supplied kernel keys *)

\* the first n entries of s removed
DropFirst(s, n) == IF n >= Len(s) THEN <<>> ELSE SubSeq(s, n + 1, Len(s))

\* C26: every successful KernelCheck on a non-empty list removes the front key
\* and no other, so that after n leaves the list is the supplied one without
\* its first n keys and the n-th leaf was given the n-th key; a built-in leaf
\* succeeds exactly when the list is empty or its front key is the empty key,
\* and when it fails the list is unchanged; on an empty list nothing is
\* consumed and the leaf uses its default key.
C26_KeysInLeafOrder ==
    (pc = "keys" /\ call.fn = "KernelCheck") =>
        /\ (call.ok /\ call.keys # <<>>) => keys = Tail(call.keys)
        /\ lpc \in {"walk", "walked"} =>
              /\ keys = DropFirst(req.kernel_keys, gp)
              /\ (leaf.externalKernel /\ gp <= Len(req.kernel_keys)
                  /\ req.kernel_keys[gp] # EmptyFMKey) =>
                    leaf.specified_key = <<req.kernel_keys[gp]>>
        /\ ~call.leaf.externalKernel =>
              /\ call.ok <=> (call.keys = <<>> \/ Head(call.keys) = EmptyFMKey)
              /\ ~call.ok => keys = call.keys
        /\ call.keys = <<>> =>
              /\ keys = <<>>
              /\ call.leaf.externalKernel =>
                    leaf.specified_key = <<>> /\ GetKernelKey(leaf) = AutoGenKey(call.leaf)
              /\ ~call.leaf.externalKernel => GetKernelKey(leaf) = EmptyFMKey

\* two leaves have taken the first two of three keys: the built-in one the
\* empty key, the external one its own key
C26_Witness ==
    /\ pc = "keys" /\ lpc = "walked" /\ gp = 2 /\ Len(req.kernel_keys) = 3
    /\ ~req.leaves[1].externalKernel /\ req.kernel_keys[1] = EmptyFMKey
    /\ req.leaves[2].externalKernel /\ leaf.specified_key = <<req.kernel_keys[2]>>
    /\ keys = <<req.kernel_keys[3]>>

------------------------------------------------------------------------------
(* IsPow and PowMax *)

------------------------------------------------------------------------------
(* IsBluesteinChirpSetup *)

\* C28: IsBluesteinChirpSetup returns false for a node without a parent
\* whatever its Bluestein type, the fused multi-kernel type included, and
\* never reads through the null pointer; under a Bluestein parent it returns
\* true only for the first two children of a single-kernel plan, only for the
\* first child of a multi-kernel plan, and for a fused plan exactly when the
\* node's fuse type is the forward chirp.
C28_NullParentIsFalse ==
    (call.fn = "IsBluesteinChirpSetup" /\ ret.done) =>
        /\ call.parent = nullParent => ret.value = "false"
        /\ ret.value \in {"true", "false"}
        /\ (call.parent # nullParent /\ call.parent.scheme = "CS_BLUESTEIN") =>
              /\ call.parent.typeBlue = "BT_NONE" => ret.value = "false"
              /\ call.parent.typeBlue = "BT_SINGLE_KERNEL" =>
                    (ret.value = "true" <=> call.node.index \in {1, 2})
              /\ call.parent.typeBlue = "BT_MULTI_KERNEL" =>
                    (ret.value = "true" <=> call.node.index = 1)
              /\ call.parent.typeBlue = "BT_MULTI_KERNEL_FUSED" =>
                    (ret.value = "true" <=> call.node.fuseBlue = "BFT_FWD_CHIRP")

------------------------------------------------------------------------------
(* Layout propagation run twice *)

\* the nodes the second run is about
IsTransposePairNode(n) ==
    \/ n.scheme = "CS_REAL_2D_EVEN" /\ n.solution = "TR_PAIR"
    \/ n.scheme = "CS_REAL_3D_EVEN" /\ n.solution = "TR_PAIRS"
SameLayout(a, b) ==
    /\ a.inStride = b.inStride /\ a.outStride = b.outStride
    /\ a.iDist = b.iDist /\ a.oDist = b.oDist

\* C29: a second run of AssignParams_internal on a propagated embed-in-complex,
\* 2-D transpose-pair or 3-D transpose-pair node whose own strides and
\* distances are unchanged leaves the inStride, outStride, iDist and oDist of
\* every child as the first run set them, every stride vector with as many
\* entries as the lengths it goes with.
C29_PropagationIdempotent ==
    (pc = "reassigned" /\ (IsEmbedNode(root) \/ IsTransposePairNode(root))) =>
        /\ SameLayout(root, call.first)
        /\ \A i \in DOMAIN root.childNodes :
              /\ SameLayout(root.childNodes[i], call.first.childNodes[i])
              /\ Len(root.childNodes[i].inStride) = Len(root.childNodes[i].length)
              /\ Len(root.childNodes[i].outStride)
                     = Len(GetOutputLength(root.childNodes[i]))

------------------------------------------------------------------------------
(* Leases over a leaf's lifetime *)

NeedsNothing(n) == ~n.need_chirp /\ ~n.need_twd_table /\ n.large1D = 0
NeededFields(n) ==
    (IF n.need_chirp THEN {"chirp"} ELSE {})
        \cup (IF n.need_twd_table THEN {"twiddles"} ELSE {})
        \cup (IF n.large1D # 0 THEN {"twiddles_large"} ELSE {})

\* C30: after one or several CreateDeviceResources calls on a leaf and its
\* destruction, every table the leaf acquired (chirp when need_chirp, twiddles
\* when need_twd_table, large twiddles when large1D is non-zero, nothing
\* otherwise) has been released exactly once, so that once every leaf is
\* destroyed no table keeps a reference.
C30_LeasesBalanced ==
    pc = "lease" =>
        /\ \A id \in DOMAIN planNodes :
              /\ \A f \in LeaseFields : Gets(id, f) # {} => f \in NeededFields(planNodes[id])
              /\ NeedsNothing(planNodes[id]) => log[id] = <<>>
              /\ planNodes[id].state = "destroyed" =>
                    \A f \in LeaseFields :
                        Cardinality(Releases(id, f)) = Cardinality(Gets(id, f))
        /\ (\A id \in DOMAIN planNodes : planNodes[id].state = "destroyed")
              => repo.live = {}

====
